---- MODULE Spec2Model ----
(***************************************************************************)
(* RoxTalk realtime layer: the Socket.IO connection handler of server.ts,  *)
(* the presence map of src/lib/presence.ts and the room id builder of      *)
(* src/lib/rooms.ts.                                                       *)
(*                                                                         *)
(* Strings are sequences of UTF-16 code units (naturals), so that the      *)
(* lexicographic sort and the template-literal concatenation of            *)
(* buildRoomId are computed, not assumed.                                  *)
(***************************************************************************)
EXTENDS Integers, Sequences, FiniteSets, TLC

(* ----------------------------- bounds --------------------------------- *)

\* Number of sockets that may ever connect.
MaxSockets == 3

\* Number of connections and client events handled in one behaviour.
MaxSteps == 3

\* Longest id string fed to buildRoomId in the pure-function specification.
MaxIdLen == 3

(* --------------------------- strings ----------------------------------- *)

\* ':' of the template literal `room:${first}:${second}`.
Colon == 58

\* "room:" prefix of the template literal.
RoomPrefix == <<114, 111, 111, 109, Colon>>

\* Code units used to build id strings: ':', 'a', 'b'.
Alphabet == {Colon, 97, 98}

\* Blank characters removed by String.prototype.trim.
WhiteSpace == {9, 10, 13, 32}

\* All strings over Alphabet of length at most n.
StringsUpTo(n) == UNION {[1..k -> Alphabet] : k \in 0..n}

RECURSIVE StrLess(_, _)
\* JavaScript string comparison a < b: lexicographic on code units.
StrLess(a, b) ==
  IF b = <<>> THEN FALSE
  ELSE IF a = <<>> THEN TRUE
  ELSE IF Head(a) < Head(b) THEN TRUE
  ELSE IF Head(a) > Head(b) THEN FALSE
  ELSE StrLess(Tail(a), Tail(b))

\* [x, y].sort() with the default comparator: the pair is swapped only when
\* y sorts strictly before x.
SortPair(x, y) == IF StrLess(y, x) THEN <<y, x>> ELSE <<x, y>>

\* Mutant of buildRoomId: the sort is left out.
buildRoomIdUnsorted(userIdA, userIdB) ==
  RoomPrefix \o userIdA \o <<Colon>> \o userIdB

\* src/lib/rooms.ts buildRoomId.
buildRoomId(userIdA, userIdB) ==
  LET sorted == SortPair(userIdA, userIdB)
      first == sorted[1]
      second == sorted[2]
  IN RoomPrefix \o first \o <<Colon>> \o second

RECURSIVE TrimStart(_)
TrimStart(s) ==
  IF s = <<>> THEN s
  ELSE IF Head(s) \in WhiteSpace THEN TrimStart(Tail(s))
  ELSE s

RECURSIVE TrimEnd(_)
TrimEnd(s) ==
  IF s = <<>> THEN s
  ELSE IF s[Len(s)] \in WhiteSpace THEN TrimEnd(SubSeq(s, 1, Len(s) - 1))
  ELSE s

\* String.prototype.trim.
Trim(s) == TrimEnd(TrimStart(s))

(* --------------------------- JavaScript values ------------------------- *)

\* A value whose typeof is "string".
JsStr(s) == [type |-> "string", str |-> s]

\* A value whose typeof is "boolean".
JsBool(b) == [type |-> "boolean", bool |-> b]

\* undefined (a missing field), standing for every non-string, non-boolean value.
JsUndef == [type |-> "undefined"]

\* An array value (Array.isArray): a sequence of strings.
JsArr(a) == [type |-> "array", arr |-> a]

\* A payload that is not an object (null, a number, nothing at all).
NonObject == [object |-> FALSE]

(* ------------------------------ inputs --------------------------------- *)

Sockets == 1..MaxSockets

\* Id strings a client presents: "", "a", "b".
ClientIds == {<<>>, <<97>>, <<98>>}

\* socket.handshake.query.userId: string | string[] | undefined.
HandshakeQueries ==
  {[kind |-> "undefined"]}
    \cup {[kind |-> "string", str |-> s] : s \in ClientIds}
    \cup {[kind |-> "array", arr |-> a] : a \in {<<>>, << <<>> >>, << <<97>> >>}}

\* Message texts: " " and " h ".
Contents == {<<32>>, <<32, 104, 32>>}

RoomPayloads ==
  {NonObject, [object |-> TRUE, otherUserId |-> JsUndef]}
    \cup {[object |-> TRUE, otherUserId |-> JsStr(i)] : i \in ClientIds}

\* OutgoingMessagePayload: fromUserId, toUserId, content, and optionally
\* attachments. A client is free to add fields, such as a roomId ("x") of
\* its own choosing next to one attachment reference ("p").
MessagePayloads ==
  {NonObject,
   [object |-> TRUE, fromUserId |-> JsStr(<<97>>), toUserId |-> JsUndef,
    content |-> JsStr(<<104>>)]}
    \cup {[object |-> TRUE, fromUserId |-> JsStr(f), toUserId |-> JsStr(t),
           content |-> JsStr(c)] :
            f \in ClientIds \ {<<>>}, t \in ClientIds, c \in Contents}
    \cup {[object |-> TRUE, fromUserId |-> JsStr(<<97>>), toUserId |-> JsStr(<<98>>),
           content |-> JsStr(c), attachments |-> JsArr(<< <<112>> >>),
           roomId |-> JsStr(<<120>>)] : c \in Contents}

\* TypingPayload: userId (the counterpart) and isTyping. A client may send
\* isTyping: false as well as true with either event.
TypingPayloads ==
  {NonObject, [object |-> TRUE, userId |-> JsStr(<<98>>), isTyping |-> JsUndef],
   [object |-> TRUE, userId |-> JsStr(<<98>>), isTyping |-> JsBool(FALSE)]}
    \cup {[object |-> TRUE, userId |-> JsStr(i), isTyping |-> JsBool(TRUE)] :
            i \in ClientIds}

(* ------------------------------- state --------------------------------- *)

VARIABLES
  status,       \* socket -> "Connecting" | "Active" | "Terminated"
  userId,       \* socket -> the userId constant of its connection closure
  onlineUsers,  \* presence.ts: Map<userId, PresenceEntry>
  rooms,        \* socket -> set of room ids joined (Socket.IO adapter)
  pending,      \* drafts whose MessageModel.create has not settled yet
  store,        \* the messages collection, in insertion order
  inbox,        \* socket -> events the server emitted to it, in order
  emitted,      \* history: the presence broadcasts (io.emit) made so far, in order
  nextSocket,   \* id the next connecting socket gets
  nEvents,      \* client events dispatched so far
  budget,       \* connections and client events a behaviour may handle in all
  clock,        \* Date.now() at the next connection or client event
  elapse,       \* milliseconds that may pass between two such steps
  history,      \* response of the latest GET /api/messages/history
  presenceMap,  \* browser: keys of SocketContext's onlineUsers state
  snapshot,     \* browser: the fetch of /api/users/online and its response
  thread,       \* browser: the chat page's messages state
  loading,      \* browser: TRUE while loadHistory awaits its response
  sent,         \* browser: message:send events the chat page has emitted
  seen,         \* browser: events of its socket whose listeners have run
  lastEv,       \* history: the client event dispatched last
  lastJoin,     \* history: socket -> counterpart of the room:join that was its latest event
  sendLog,      \* history: per message _id, who sent it, in which context,
                \* whether its create call was rejected, and every socket's
                \* rooms when its message:send was received
  fnA, fnB,     \* buildRoomId specification: the two arguments
  fnOut,        \* buildRoomId specification: the result
  fnPc          \* buildRoomId specification: "call" | "done"

vars == <<status, userId, onlineUsers, rooms, pending, store, inbox, emitted,
          nextSocket, nEvents, budget, clock, elapse, history, presenceMap,
          snapshot, thread, loading, sent, seen, lastEv, lastJoin,
          sendLog, fnA, fnB, fnOut, fnPc>>

serverVars == <<status, userId, onlineUsers, rooms, pending, store, inbox,
                emitted, nextSocket, nEvents, budget, clock, elapse, lastEv, lastJoin, sendLog>>

fnVars == <<fnA, fnB, fnOut, fnPc>>

\* What the environment allows: never changed by the program.
envVars == <<budget, elapse>>

\* State of the browser of one signed-in user.
clientVars == <<presenceMap, snapshot, thread, loading, sent, seen>>

\* State of the HTTP API routes and of the browser, which no listener of
\* the socket server touches.
httpVars == <<history, clientVars>>

\* Connections and client events handled so far.
Steps == nEvents + nextSocket - 1

\* Date.now(), in milliseconds.
Now == clock

\* Time passes until the next connection or client event.
Elapse == clock' \in {clock + dt : dt \in elapse}

\* history before any query was answered.
NoResponse == [status |-> 0]

\* The browser when SocketProvider's effect has just run: handlers
\* registered, /api/users/online requested, nothing received, and a chat
\* page with an empty conversation.
ClientStart ==
  /\ presenceMap = {}
  /\ snapshot = [state |-> "requested"]
  /\ thread = <<>>
  /\ loading = FALSE
  /\ sent = 0
  /\ seen = 0

\* lastEv before any client event was dispatched.
NoEvent == [sock |-> 0, name |-> "none", payload |-> NonObject]

Init ==
  /\ status = [s \in Sockets |-> "Connecting"]
  /\ userId = [s \in Sockets |-> <<>>]
  /\ onlineUsers = <<>>
  /\ rooms = [s \in Sockets |-> {}]
  /\ pending = {}
  /\ store = <<>>
  /\ inbox = [s \in Sockets |-> <<>>]
  /\ emitted = <<>>
  /\ nextSocket = 1
  /\ nEvents = 0
  /\ budget = MaxSteps
  /\ clock = 1
  /\ elapse = {1}
  /\ history = NoResponse
  /\ ClientStart
  /\ lastEv = NoEvent
  /\ lastJoin = [s \in Sockets |-> {}]
  /\ sendLog = <<>>
  /\ fnA = <<>>
  /\ fnB = <<>>
  /\ fnOut = <<>>
  /\ fnPc = "idle"

(* ------------------------------ presence ------------------------------- *)

\* presence.ts setUserOnline: onlineUsers.set(userId, entry).
setUserOnline(m, u, socketId, now) ==
  [x \in DOMAIN m \cup {u} |->
     IF x = u THEN [socketId |-> socketId, lastSeenAt |-> now] ELSE m[x]]

\* Mutant of setUserOffline: deleting an absent user empties the map.
setUserOfflineClear(m, u) ==
  IF u \in DOMAIN m THEN [x \in DOMAIN m \ {u} |-> m[x]] ELSE <<>>

\* presence.ts setUserOffline: onlineUsers.delete(userId).
setUserOffline(m, u) == [x \in DOMAIN m \ {u} |-> m[x]]

(* ------------------------------ emitting ------------------------------- *)

\* Sockets that are connected to the namespace.
Connected == {s \in Sockets : status[s] = "Active"}

\* Sockets subscribed to room r.
Subscribers(r) == {s \in Sockets : r \in rooms[s]}

\* Mutant of Deliver: sockets with an even id get the event ahead of what
\* they were sent before.
DeliverNewestFirst(targets, e) ==
  [s \in Sockets |->
     IF s \in targets
     THEN (IF s % 2 = 0 THEN <<e>> \o inbox[s] ELSE Append(inbox[s], e))
     ELSE inbox[s]]

\* The inboxes after event e went to every socket of targets.
Deliver(targets, e) ==
  [s \in Sockets |-> IF s \in targets THEN Append(inbox[s], e) ELSE inbox[s]]

OnlineEvent(u) == [ev |-> "user:online", userId |-> u]
OfflineEvent(u) == [ev |-> "user:offline", userId |-> u]
TypingEvent(u, b) == [ev |-> "user:typing", userId |-> u, isTyping |-> b]
MessageEvent(m) == [ev |-> "message:new", msg |-> m]

(* ----------------------------- type guards ----------------------------- *)

isRoomPayload(p) == p.object /\ p.otherUserId.type = "string"

isMessagePayload(p) ==
  /\ p.object
  /\ p.fromUserId.type = "string"
  /\ p.toUserId.type = "string"
  /\ p.content.type = "string"

isTypingPayload(p) ==
  /\ p.object
  /\ p.userId.type = "string"
  /\ p.isTyping.type = "boolean"

(* ---------------------------- message store --------------------------- *)

\* Ids of the messages whose create call has not settled.
PendingIds == {d._id : d \in pending}

\* messageSchema: fromUserId, toUserId and roomId are required strings, and
\* a required string path rejects the empty string.
SchemaValid(d) == d.fromUserId # <<>> /\ d.toUserId # <<>> /\ d.roomId # <<>>

\* serializedMessage of the message:send handler.
Serialize(message) ==
  [_id |-> [hex |-> message._id],
   fromUserId |-> message.fromUserId,
   toUserId |-> message.toUserId,
   content |-> message.content,
   roomId |-> message.roomId,
   createdAt |-> [iso |-> message.createdAt]]

(* ------------------------------ history -------------------------------- *)

\* sendLog after socket s dispatched one more event: its sends still in
\* flight are no longer "quiet".
Disturb(s) ==
  [i \in DOMAIN sendLog |->
     IF sendLog[i].sock = s /\ i \in PendingIds
     THEN [sendLog[i] EXCEPT !.quiet = FALSE]
     ELSE sendLog[i]]

\* Bookkeeping shared by every dispatched client event: joined is the set
\* holding the counterpart id when the event is a well-typed room:join.
Dispatch(s, name, p, joined) ==
  /\ Steps < budget
  /\ nEvents' = nEvents + 1
  /\ Elapse
  /\ UNCHANGED envVars
  /\ lastEv' = [sock |-> s, name |-> name, payload |-> p]
  /\ lastJoin' = [lastJoin EXCEPT ![s] = joined]

(* ---------------------------- connection ------------------------------- *)

\* const userId = typeof q === "string" ? q : Array.isArray(q) ? q[0] : undefined
HandshakeUserId(q) ==
  IF q.kind = "string" THEN JsStr(q.str)
  ELSE IF q.kind = "array"
       THEN (IF Len(q.arr) > 0 THEN JsStr(q.arr[1]) ELSE JsUndef)
       ELSE JsUndef

\* !userId
Falsy(v) == v.type = "undefined" \/ (v.type = "string" /\ v.str = <<>>)

\* server.ts 77-81: socket.disconnect(); return. No listener is registered.
Refuse(s) ==
  /\ status' = [status EXCEPT ![s] = "Terminated"]
  /\ nextSocket' = nextSocket + 1
  /\ UNCHANGED <<userId, onlineUsers, emitted, rooms, pending, store, inbox, nEvents,
                 lastEv, lastJoin, sendLog>>
  /\ Elapse
  /\ UNCHANGED <<envVars, httpVars, fnVars>>

\* Mutant of Accept: the new connection takes over the rooms of the other
\* connections of its user.
AcceptInheriting(s, u) ==
  /\ status' = [status EXCEPT ![s] = "Active"]
  /\ userId' = [userId EXCEPT ![s] = u]
  /\ onlineUsers' = setUserOnline(onlineUsers, u, s, Now)
  /\ inbox' = Deliver(Connected \cup {s}, OnlineEvent(u))
  /\ emitted' = Append(emitted, OnlineEvent(u))
  /\ rooms' = [rooms EXCEPT ![s] = UNION {rooms[t] : t \in {x \in Sockets : userId[x] = u}}]
  /\ nextSocket' = nextSocket + 1
  /\ UNCHANGED <<pending, store, nEvents, lastEv, lastJoin, sendLog>>
  /\ Elapse
  /\ UNCHANGED <<envVars, httpVars, fnVars>>

\* Mutant of Accept: the connection is not recorded in the registry.
AcceptInvisible(s, u) ==
  /\ status' = [status EXCEPT ![s] = "Active"]
  /\ userId' = [userId EXCEPT ![s] = u]
  /\ inbox' = Deliver(Connected \cup {s}, OnlineEvent(u))
  /\ emitted' = Append(emitted, OnlineEvent(u))
  /\ nextSocket' = nextSocket + 1
  /\ UNCHANGED <<onlineUsers, rooms, pending, store, nEvents, lastEv, lastJoin, sendLog>>
  /\ Elapse
  /\ UNCHANGED <<envVars, httpVars, fnVars>>

\* server.ts 82-84 and the listener registrations that follow.
Accept(s, u) ==
  /\ status' = [status EXCEPT ![s] = "Active"]
  /\ userId' = [userId EXCEPT ![s] = u]
  /\ onlineUsers' = setUserOnline(onlineUsers, u, s, Now)
  /\ inbox' = Deliver(Connected \cup {s}, OnlineEvent(u))
  /\ emitted' = Append(emitted, OnlineEvent(u))
  /\ nextSocket' = nextSocket + 1
  /\ UNCHANGED <<rooms, pending, store, nEvents, lastEv, lastJoin, sendLog>>
  /\ Elapse
  /\ UNCHANGED <<envVars, httpVars, fnVars>>

\* Mutant of Connection: the !userId check is missing.
ConnectionUnchecked(q) ==
  /\ nextSocket <= MaxSockets
  /\ Steps < budget
  /\ LET v == HandshakeUserId(q)
     IN Accept(nextSocket, IF v.type = "string" THEN v.str ELSE <<>>)

\* io.on("connection", ...)
Connection(q) ==
  /\ nextSocket <= MaxSockets
  /\ Steps < budget
  /\ LET v == HandshakeUserId(q)
     IN IF Falsy(v) THEN Refuse(nextSocket) ELSE Accept(nextSocket, v.str)

(* ----------------------------- presence events ------------------------- *)

\* Mutant of PresenceJoin: socket.broadcast.emit in place of io.emit, which
\* leaves the announcing socket out.
PresenceJoinOthersOnly(s) ==
  /\ status[s] = "Active"
  /\ Dispatch(s, "presence:join", NonObject, {})
  /\ onlineUsers' = setUserOnline(onlineUsers, userId[s], s, Now)
  /\ inbox' = Deliver(Connected \ {s}, OnlineEvent(userId[s]))
  /\ emitted' = Append(emitted, OnlineEvent(userId[s]))
  /\ sendLog' = Disturb(s)
  /\ UNCHANGED <<status, userId, rooms, pending, store, nextSocket>>
  /\ UNCHANGED <<httpVars, fnVars>>

\* socket.on("presence:join", ...)
PresenceJoin(s) ==
  /\ status[s] = "Active"
  /\ Dispatch(s, "presence:join", NonObject, {})
  /\ onlineUsers' = setUserOnline(onlineUsers, userId[s], s, Now)
  /\ inbox' = Deliver(Connected, OnlineEvent(userId[s]))
  /\ emitted' = Append(emitted, OnlineEvent(userId[s]))
  /\ sendLog' = Disturb(s)
  /\ UNCHANGED <<status, userId, rooms, pending, store, nextSocket>>
  /\ UNCHANGED <<httpVars, fnVars>>

\* Mutant of PresenceLeave: the socket is taken out of its rooms as well.
PresenceLeaveDropsRooms(s) ==
  /\ status[s] = "Active"
  /\ Dispatch(s, "presence:leave", NonObject, {})
  /\ onlineUsers' = setUserOffline(onlineUsers, userId[s])
  /\ inbox' = Deliver(Connected, OfflineEvent(userId[s]))
  /\ emitted' = Append(emitted, OfflineEvent(userId[s]))
  /\ rooms' = [rooms EXCEPT ![s] = {}]
  /\ sendLog' = Disturb(s)
  /\ UNCHANGED <<status, userId, pending, store, nextSocket>>
  /\ UNCHANGED <<httpVars, fnVars>>

\* socket.on("presence:leave", ...)
PresenceLeave(s) ==
  /\ status[s] = "Active"
  /\ Dispatch(s, "presence:leave", NonObject, {})
  /\ onlineUsers' = setUserOffline(onlineUsers, userId[s])
  /\ inbox' = Deliver(Connected, OfflineEvent(userId[s]))
  /\ emitted' = Append(emitted, OfflineEvent(userId[s]))
  /\ sendLog' = Disturb(s)
  /\ UNCHANGED <<status, userId, rooms, pending, store, nextSocket>>
  /\ UNCHANGED <<httpVars, fnVars>>

(* ------------------------------- rooms --------------------------------- *)

\* Mutant of RoomJoin: joining a room the socket is in takes it out.
RoomJoinToggle(s, p) ==
  /\ status[s] = "Active"
  /\ Dispatch(s, "room:join", p, IF isRoomPayload(p) THEN {p.otherUserId.str} ELSE {})
  /\ rooms' = IF isRoomPayload(p)
              THEN LET r == buildRoomId(userId[s], p.otherUserId.str)
                   IN [rooms EXCEPT ![s] = IF r \in @ THEN @ \ {r} ELSE @ \cup {r}]
              ELSE rooms
  /\ sendLog' = Disturb(s)
  /\ UNCHANGED <<status, userId, onlineUsers, emitted, pending, store, inbox, nextSocket>>
  /\ UNCHANGED <<httpVars, fnVars>>

\* socket.on("room:join", ...)
RoomJoin(s, p) ==
  /\ status[s] = "Active"
  /\ Dispatch(s, "room:join", p, IF isRoomPayload(p) THEN {p.otherUserId.str} ELSE {})
  /\ rooms' = IF isRoomPayload(p)
              THEN [rooms EXCEPT ![s] = @ \cup {buildRoomId(userId[s], p.otherUserId.str)}]
              ELSE rooms
  /\ sendLog' = Disturb(s)
  /\ UNCHANGED <<status, userId, onlineUsers, emitted, pending, store, inbox, nextSocket>>
  /\ UNCHANGED <<httpVars, fnVars>>

\* Mutant of RoomLeave: the room is emptied, not left.
RoomLeaveEveryone(s, p) ==
  /\ status[s] = "Active"
  /\ Dispatch(s, "room:leave", p, {})
  /\ rooms' = IF isRoomPayload(p)
              THEN [t \in Sockets |-> rooms[t] \ {buildRoomId(userId[s], p.otherUserId.str)}]
              ELSE rooms
  /\ sendLog' = Disturb(s)
  /\ UNCHANGED <<status, userId, onlineUsers, emitted, pending, store, inbox, nextSocket>>
  /\ UNCHANGED <<httpVars, fnVars>>

\* Mutant of RoomLeave: a payload that fails the type guard takes the
\* socket out of every room.
RoomLeaveUnguarded(s, p) ==
  /\ status[s] = "Active"
  /\ Dispatch(s, "room:leave", p, {})
  /\ rooms' = IF isRoomPayload(p)
              THEN [rooms EXCEPT ![s] = @ \ {buildRoomId(userId[s], p.otherUserId.str)}]
              ELSE [rooms EXCEPT ![s] = {}]
  /\ sendLog' = Disturb(s)
  /\ UNCHANGED <<status, userId, onlineUsers, emitted, pending, store, inbox, nextSocket>>
  /\ UNCHANGED <<httpVars, fnVars>>

\* socket.on("room:leave", ...)
RoomLeave(s, p) ==
  /\ status[s] = "Active"
  /\ Dispatch(s, "room:leave", p, {})
  /\ rooms' = IF isRoomPayload(p)
              THEN [rooms EXCEPT ![s] = @ \ {buildRoomId(userId[s], p.otherUserId.str)}]
              ELSE rooms
  /\ sendLog' = Disturb(s)
  /\ UNCHANGED <<status, userId, onlineUsers, emitted, pending, store, inbox, nextSocket>>
  /\ UNCHANGED <<httpVars, fnVars>>

(* ------------------------------ messages ------------------------------- *)

\* Mutant of SendRejected: the sender check is missing.
SendRejectedNoSenderCheck(s, p) ==
  \/ ~isMessagePayload(p)
  \/ Trim(p.content.str) = <<>>

\* The guard of server.ts 113: the event is dropped when it holds.
SendRejected(s, p) ==
  \/ ~isMessagePayload(p)
  \/ p.fromUserId.str # userId[s]
  \/ Trim(p.content.str) = <<>>

\* Mutant of Draft: a roomId found in the payload is stored as it is.
DraftClientRoom(p) ==
  [_id |-> Len(sendLog) + 1,
   fromUserId |-> p.fromUserId.str,
   toUserId |-> p.toUserId.str,
   content |-> Trim(p.content.str),
   attachments |-> <<>>,
   roomId |-> IF "roomId" \in DOMAIN p
              THEN p.roomId.str
              ELSE buildRoomId(p.fromUserId.str, p.toUserId.str),
   createdAt |-> Now,
   updatedAt |-> Now]

\* The document handed to MessageModel.create (server.ts 116-123), with the
\* _id and the timestamps mongoose assigns when it builds the document.
Draft(p) ==
  [_id |-> Len(sendLog) + 1,
   fromUserId |-> p.fromUserId.str,
   toUserId |-> p.toUserId.str,
   content |-> Trim(p.content.str),
   attachments |-> <<>>,
   roomId |-> buildRoomId(p.fromUserId.str, p.toUserId.str),
   createdAt |-> Now,
   updatedAt |-> Now]

\* Mutant of MessageSend: message:new is emitted before the create call
\* has settled.
MessageSendBroadcastFirst(s, p) ==
  /\ status[s] = "Active"
  /\ Dispatch(s, "message:send", p, {})
  /\ IF SendRejected(s, p)
     THEN /\ sendLog' = Disturb(s)
          /\ UNCHANGED <<rooms, pending, inbox>>
     ELSE LET d == Draft(p)
          IN /\ rooms' = [rooms EXCEPT ![s] = @ \cup {d.roomId}]
             /\ pending' = pending \cup {d}
             /\ inbox' = Deliver(Subscribers(d.roomId) \cup {s},
                                 MessageEvent(Serialize(d)))
             /\ sendLog' = Append(Disturb(s),
                  [sock |-> s, quiet |-> TRUE,
                   afterJoin |-> d.toUserId \in lastJoin[s],
                   failed |-> FALSE,
                   roomsAt |-> rooms])
  /\ UNCHANGED <<status, userId, onlineUsers, emitted, store, nextSocket>>
  /\ UNCHANGED <<httpVars, fnVars>>

\* socket.on("message:send", ...) up to the await of MessageModel.create.
MessageSend(s, p) ==
  /\ status[s] = "Active"
  /\ Dispatch(s, "message:send", p, {})
  /\ IF SendRejected(s, p)
     THEN /\ sendLog' = Disturb(s)
          /\ UNCHANGED <<rooms, pending>>
     ELSE LET d == Draft(p)
          IN /\ rooms' = [rooms EXCEPT ![s] = @ \cup {d.roomId}]
             /\ pending' = pending \cup {d}
             /\ sendLog' = Append(Disturb(s),
                  [sock |-> s,
                   quiet |-> TRUE,
                   afterJoin |-> d.toUserId \in lastJoin[s],
                   failed |-> FALSE,
                   roomsAt |-> rooms])
  /\ UNCHANGED <<status, userId, onlineUsers, emitted, store, inbox, nextSocket>>
  /\ UNCHANGED <<httpVars, fnVars>>

\* Mutant of MessageCreated: socket.to(roomId) in place of io.to(roomId),
\* which leaves the sender out.
MessageCreatedExceptSender(d) ==
  /\ d \in pending
  /\ SchemaValid(d)
  /\ pending' = pending \ {d}
  /\ store' = Append(store, d)
  /\ inbox' = Deliver(Subscribers(d.roomId) \ {sendLog[d._id].sock},
                      MessageEvent(Serialize(d)))
  /\ UNCHANGED <<status, userId, onlineUsers, emitted, rooms, nextSocket, nEvents,
                 lastEv, lastJoin, sendLog>>
  /\ UNCHANGED <<envVars, clock, httpVars, fnVars>>

\* Mutant of MessageCreated: the document is inserted twice.
MessageCreatedTwice(d) ==
  /\ d \in pending
  /\ SchemaValid(d)
  /\ pending' = pending \ {d}
  /\ store' = Append(Append(store, d), d)
  /\ inbox' = Deliver(Subscribers(d.roomId), MessageEvent(Serialize(d)))
  /\ UNCHANGED <<status, userId, onlineUsers, emitted, rooms, nextSocket, nEvents,
                 lastEv, lastJoin, sendLog>>
  /\ UNCHANGED <<envVars, clock, httpVars, fnVars>>

\* Mutant of MessageCreated: message:new goes to the connections that were
\* in the room when message:send was received, the sender included.
MessageCreatedForEarlySubscribers(d) ==
  /\ d \in pending
  /\ SchemaValid(d)
  /\ pending' = pending \ {d}
  /\ store' = Append(store, d)
  /\ inbox' = Deliver({t \in Connected :
                         \/ t = sendLog[d._id].sock
                         \/ d.roomId \in sendLog[d._id].roomsAt[t]},
                      MessageEvent(Serialize(d)))
  /\ UNCHANGED <<status, userId, onlineUsers, emitted, rooms, nextSocket, nEvents,
                 lastEv, lastJoin, sendLog>>
  /\ UNCHANGED <<envVars, clock, httpVars, fnVars>>

\* MessageModel.create resolved: server.ts 124-132.
MessageCreated(d) ==
  /\ d \in pending
  /\ SchemaValid(d)
  /\ pending' = pending \ {d}
  /\ store' = Append(store, d)
  /\ inbox' = Deliver(Subscribers(d.roomId), MessageEvent(Serialize(d)))
  /\ UNCHANGED <<status, userId, onlineUsers, emitted, rooms, nextSocket, nEvents,
                 lastEv, lastJoin, sendLog>>
  /\ UNCHANGED <<envVars, clock, httpVars, fnVars>>

\* Mutant of MessageCreateFailed: the rejection is caught and the draft is
\* broadcast all the same.
MessageCreateFailedBroadcast(d) ==
  /\ d \in pending
  /\ pending' = pending \ {d}
  /\ sendLog' = [sendLog EXCEPT ![d._id].failed = TRUE]
  /\ inbox' = Deliver(Subscribers(d.roomId), MessageEvent(Serialize(d)))
  /\ UNCHANGED <<status, userId, onlineUsers, emitted, rooms, store, nextSocket,
                 nEvents, lastEv, lastJoin>>
  /\ UNCHANGED <<envVars, clock, httpVars, fnVars>>

\* MessageModel.create rejected (validation error or store unavailable): the
\* async handler stops at the await, and nothing catches the rejection.
MessageCreateFailed(d) ==
  /\ d \in pending
  /\ pending' = pending \ {d}
  /\ sendLog' = [sendLog EXCEPT ![d._id].failed = TRUE]
  /\ UNCHANGED <<status, userId, onlineUsers, emitted, rooms, store, inbox, nextSocket,
                 nEvents, lastEv, lastJoin>>
  /\ UNCHANGED <<envVars, clock, httpVars, fnVars>>

(* ------------------------------- typing -------------------------------- *)

\* Mutant of TypingRelay: io.to(roomId) in place of socket.to(roomId),
\* which includes the sender.
TypingRelayIncludingSender(s, name, p, flag) ==
  /\ status[s] = "Active"
  /\ Dispatch(s, name, p, {})
  /\ inbox' = IF isTypingPayload(p)
              THEN Deliver(Subscribers(buildRoomId(userId[s], p.userId.str)),
                           TypingEvent(userId[s], flag))
              ELSE inbox
  /\ sendLog' = Disturb(s)
  /\ UNCHANGED <<status, userId, onlineUsers, emitted, rooms, pending, store, nextSocket>>
  /\ UNCHANGED <<httpVars, fnVars>>

\* Mutant of TypingRelay: the relayed event echoes the payload, its userId
\* and its isTyping, in place of the bound identity and the listener's flag.
TypingRelayEcho(s, name, p, flag) ==
  /\ status[s] = "Active"
  /\ Dispatch(s, name, p, {})
  /\ inbox' = IF isTypingPayload(p)
              THEN Deliver(Subscribers(buildRoomId(userId[s], p.userId.str)) \ {s},
                           TypingEvent(p.userId.str, p.isTyping.bool))
              ELSE inbox
  /\ sendLog' = Disturb(s)
  /\ UNCHANGED <<status, userId, onlineUsers, emitted, rooms, pending, store, nextSocket>>
  /\ UNCHANGED <<httpVars, fnVars>>

\* Body shared by the typing:start and typing:stop listeners.
TypingRelay(s, name, p, flag) ==
  /\ status[s] = "Active"
  /\ Dispatch(s, name, p, {})
  /\ inbox' = IF isTypingPayload(p)
              THEN Deliver(Subscribers(buildRoomId(userId[s], p.userId.str)) \ {s},
                           TypingEvent(userId[s], flag))
              ELSE inbox
  /\ sendLog' = Disturb(s)
  /\ UNCHANGED <<status, userId, onlineUsers, emitted, rooms, pending, store, nextSocket>>
  /\ UNCHANGED <<httpVars, fnVars>>

\* socket.on("typing:start", ...)
TypingStart(s, p) == TypingRelay(s, "typing:start", p, TRUE)

\* Mutant of TypingStop: the listener emits isTyping: true.
TypingStopAsStart(s, p) == TypingRelay(s, "typing:stop", p, TRUE)

\* socket.on("typing:stop", ...)
TypingStop(s, p) == TypingRelay(s, "typing:stop", p, FALSE)

(* ----------------------------- termination ----------------------------- *)

\* Mutant of Disconnect: the listener does not broadcast user:offline.
DisconnectSilent(s) ==
  /\ status[s] = "Active"
  /\ status' = [status EXCEPT ![s] = "Terminated"]
  /\ rooms' = [rooms EXCEPT ![s] = {}]
  /\ onlineUsers' = setUserOffline(onlineUsers, userId[s])
  /\ UNCHANGED <<userId, pending, store, inbox, emitted, nextSocket, nEvents,
                 lastEv, lastJoin, sendLog>>
  /\ UNCHANGED <<envVars, clock, httpVars, fnVars>>

\* Mutant of Disconnect: the listener does nothing for a socket one of
\* whose creates was rejected.
DisconnectUnlessFailed(s) ==
  /\ status[s] = "Active"
  /\ status' = [status EXCEPT ![s] = "Terminated"]
  /\ rooms' = [rooms EXCEPT ![s] = {}]
  /\ IF \E i \in DOMAIN sendLog : sendLog[i].sock = s /\ sendLog[i].failed
     THEN UNCHANGED <<onlineUsers, emitted, inbox>>
     ELSE /\ onlineUsers' = setUserOffline(onlineUsers, userId[s])
          /\ inbox' = Deliver(Connected \ {s}, OfflineEvent(userId[s]))
          /\ emitted' = Append(emitted, OfflineEvent(userId[s]))
  /\ UNCHANGED <<userId, pending, store, nextSocket, nEvents, lastEv, lastJoin, sendLog>>
  /\ UNCHANGED <<envVars, clock, httpVars, fnVars>>

\* Transport close of an Active socket: Socket.IO drops its room
\* memberships, then runs socket.on("disconnect", ...).
Disconnect(s) ==
  /\ status[s] = "Active"
  /\ status' = [status EXCEPT ![s] = "Terminated"]
  /\ rooms' = [rooms EXCEPT ![s] = {}]
  /\ onlineUsers' = setUserOffline(onlineUsers, userId[s])
  /\ inbox' = Deliver(Connected \ {s}, OfflineEvent(userId[s]))
  /\ emitted' = Append(emitted, OfflineEvent(userId[s]))
  /\ UNCHANGED <<userId, pending, store, nextSocket, nEvents, lastEv, lastJoin, sendLog>>
  /\ UNCHANGED <<envVars, clock, httpVars, fnVars>>

\* The client events, with every payload of the input sets.
ClientEvents ==
  {[name |-> n, payload |-> NonObject] : n \in {"presence:join", "presence:leave"}}
    \cup {[name |-> n, payload |-> p] :
            n \in {"room:join", "room:leave"}, p \in RoomPayloads}
    \cup {[name |-> "message:send", payload |-> p] : p \in MessagePayloads}
    \cup {[name |-> n, payload |-> p] :
            n \in {"typing:start", "typing:stop"}, p \in TypingPayloads}

\* An event sent on a socket that was terminated: the connection handler
\* registered no listener for a refused socket (server.ts 77-81), and a
\* closed socket dispatches nothing.
Unheard(s, e) ==
  /\ status[s] = "Terminated"
  /\ Dispatch(s, e.name, e.payload, {})
  /\ UNCHANGED <<status, userId, onlineUsers, emitted, rooms, pending, store, inbox,
                 nextSocket, sendLog>>
  /\ UNCHANGED <<httpVars, fnVars>>

(* --------------------------- specification ----------------------------- *)

Next ==
  \/ \E q \in HandshakeQueries : Connection(q)
  \/ \E s \in Sockets : PresenceJoin(s)
  \/ \E s \in Sockets : PresenceLeave(s)
  \/ \E s \in Sockets, p \in RoomPayloads : RoomJoin(s, p)
  \/ \E s \in Sockets, p \in RoomPayloads : RoomLeave(s, p)
  \/ \E s \in Sockets, p \in MessagePayloads : MessageSend(s, p)
  \/ \E d \in pending : MessageCreated(d)
  \/ \E d \in pending : MessageCreateFailed(d)
  \/ \E s \in Sockets, p \in TypingPayloads : TypingStart(s, p)
  \/ \E s \in Sockets, p \in TypingPayloads : TypingStop(s, p)
  \/ \E s \in Sockets : Disconnect(s)
  \/ \E s \in Sockets, e \in ClientEvents : Unheard(s, e)

Spec == Init /\ [][Next]_vars

(* ------------------- connect / reconnect sequences --------------------- *)

ConnNext ==
  \/ \E q \in HandshakeQueries : Connection(q)
  \/ \E s \in Sockets : Disconnect(s)

\* Behaviours made of connections and disconnections only.
ConnSpec == Init /\ [][ConnNext]_vars

(* ------------- two users connected and in their channel --------------- *)

\* room:join payload naming counterpart u.
JoinPayload(u) == [object |-> TRUE, otherUserId |-> JsStr(u)]

\* The state after "a" connected on socket 1, "b" connected on socket 2,
\* socket 1 sent room:join for "b" and socket 2 sent room:join for "a", one
\* millisecond apart.
PairState ==
  /\ status = [s \in Sockets |-> IF s \in {1, 2} THEN "Active" ELSE "Connecting"]
  /\ userId = [s \in Sockets |-> IF s = 1 THEN <<97>> ELSE IF s = 2 THEN <<98>> ELSE <<>>]
  /\ onlineUsers = (<<97>> :> [socketId |-> 1, lastSeenAt |-> 1])
                     @@ (<<98>> :> [socketId |-> 2, lastSeenAt |-> 2])
  /\ rooms = [s \in Sockets |->
                IF s \in {1, 2} THEN {buildRoomId(<<97>>, <<98>>)} ELSE {}]
  /\ pending = {}
  /\ store = <<>>
  /\ inbox = [s \in Sockets |->
                IF s = 1 THEN <<OnlineEvent(<<97>>), OnlineEvent(<<98>>)>>
                ELSE IF s = 2 THEN <<OnlineEvent(<<98>>)>>
                ELSE <<>>]
  /\ emitted = <<OnlineEvent(<<97>>), OnlineEvent(<<98>>)>>
  /\ nextSocket = 3
  /\ nEvents = 2
  /\ clock = 5
  /\ history = NoResponse
  /\ ClientStart
  /\ lastEv = [sock |-> 2, name |-> "room:join", payload |-> JoinPayload(<<97>>)]
  /\ lastJoin = [s \in Sockets |->
                   IF s = 1 THEN {<<98>>} ELSE IF s = 2 THEN {<<97>>} ELSE {}]
  /\ sendLog = <<>>
  /\ fnA = <<>>
  /\ fnB = <<>>
  /\ fnOut = <<>>
  /\ fnPc = "idle"

\* PairState with its four steps counted as spent and MaxSteps - 1 more to
\* go, one millisecond apart.
PairInit ==
  /\ PairState
  /\ budget = MaxSteps + 3
  /\ elapse = {1}

\* Behaviours that start with both users connected and subscribed.
PairSpec == PairInit /\ [][Next]_vars

(* ------------------------- conversation history ------------------------ *)

\* Requests to GET /api/messages/history: the method, req.query.userId and
\* the user of the auth cookie (found by getAuthenticatedUser, or none).
HistoryRequests ==
  [method : {"GET", "POST"},
   userId : {JsUndef, JsStr(<<>>), JsStr(<<98>>)},
   auth : {JsUndef, JsStr(<<97>>)}]

\* One element of serializedMessages.
HistoryItem(message) ==
  [_id |-> [hex |-> message._id],
   fromUserId |-> message.fromUserId,
   toUserId |-> message.toUserId,
   content |-> message.content,
   roomId |-> message.roomId,
   createdAt |-> [iso |-> message.createdAt]]

\* MessageModel.find({ roomId }).sort({ createdAt: 1 }): the documents of
\* the room in ascending createdAt order. The order of documents with equal
\* createdAt is not specified by the database: every order is a result.
FindSorted(roomId) ==
  LET found == {k \in 1..Len(store) : store[k].roomId = roomId}
      n == Cardinality(found)
  IN {[i \in 1..n |-> store[f[i]]] :
        f \in {g \in [1..n -> found] :
                 /\ \A i, j \in 1..n : i # j => g[i] # g[j]
                 /\ \A i, j \in 1..n :
                      i < j => store[g[i]].createdAt <= store[g[j]].createdAt}}

\* historyHandler.
HistoryQuery(req) ==
  /\ history' \in
       IF req.method # "GET" THEN {[status |-> 405]}
       ELSE IF req.userId.type # "string" \/ Len(req.userId.str) < 1
            THEN {[status |-> 400]}
       ELSE IF req.auth.type # "string" THEN {[status |-> 401]}
       ELSE {[status |-> 200,
              roomId |-> buildRoomId(req.auth.str, req.userId.str),
              data |-> [i \in DOMAIN messages |-> HistoryItem(messages[i])]] :
               messages \in FindSorted(buildRoomId(req.auth.str, req.userId.str))}
  /\ UNCHANGED <<serverVars, clientVars, fnVars>>

\* PairState with two more steps to go, which may fall into the same
\* millisecond.
HistoryInit ==
  /\ PairState
  /\ budget = MaxSteps + 3
  /\ elapse = {0, 1}

\* Sending, persisting and reading back.
HistoryNext ==
  \/ \E s \in Sockets, p \in MessagePayloads : MessageSend(s, p)
  \/ \E d \in pending : MessageCreated(d)
  \/ \E d \in pending : MessageCreateFailed(d)
  \/ \E req \in HistoryRequests : HistoryQuery(req)

HistorySpec == HistoryInit /\ [][HistoryNext]_vars

(* ---------------------- buildRoomId as a function ---------------------- *)

RoomInit ==
  /\ status = [s \in Sockets |-> "Connecting"]
  /\ userId = [s \in Sockets |-> <<>>]
  /\ onlineUsers = <<>>
  /\ rooms = [s \in Sockets |-> {}]
  /\ pending = {}
  /\ store = <<>>
  /\ inbox = [s \in Sockets |-> <<>>]
  /\ emitted = <<>>
  /\ nextSocket = 1
  /\ nEvents = 0
  /\ budget = MaxSteps
  /\ clock = 1
  /\ elapse = {1}
  /\ history = NoResponse
  /\ ClientStart
  /\ lastEv = NoEvent
  /\ lastJoin = [s \in Sockets |-> {}]
  /\ sendLog = <<>>
  /\ fnA \in StringsUpTo(MaxIdLen)
  /\ fnB \in StringsUpTo(MaxIdLen)
  /\ fnOut = <<>>
  /\ fnPc = "call"

\* One call of buildRoomId on the chosen arguments.
BuildRoomCall ==
  /\ fnPc = "call"
  /\ fnOut' = buildRoomId(fnA, fnB)
  /\ fnPc' = "done"
  /\ UNCHANGED <<fnA, fnB>>
  /\ UNCHANGED <<serverVars, httpVars>>

RoomSpec == RoomInit /\ [][BuildRoomCall]_vars

(* ------------------- typing among fresh connections -------------------- *)

\* The state after construction, save for what the environment allows.
Fresh ==
  /\ status = [s \in Sockets |-> "Connecting"]
  /\ userId = [s \in Sockets |-> <<>>]
  /\ onlineUsers = <<>>
  /\ rooms = [s \in Sockets |-> {}]
  /\ pending = {}
  /\ store = <<>>
  /\ inbox = [s \in Sockets |-> <<>>]
  /\ emitted = <<>>
  /\ nextSocket = 1
  /\ nEvents = 0
  /\ clock = 1
  /\ history = NoResponse
  /\ ClientStart
  /\ lastEv = NoEvent
  /\ lastJoin = [s \in Sockets |-> {}]
  /\ sendLog = <<>>
  /\ fnA = <<>>
  /\ fnB = <<>>
  /\ fnOut = <<>>
  /\ fnPc = "idle"

\* One step more than Init allows.
TypingInit ==
  /\ Fresh
  /\ budget = MaxSteps + 1
  /\ elapse = {1}

\* Connecting, joining rooms and signalling typing.
TypingNext ==
  \/ \E q \in HandshakeQueries : Connection(q)
  \/ \E s \in Sockets, p \in RoomPayloads : RoomJoin(s, p)
  \/ \E s \in Sockets, p \in TypingPayloads : TypingStart(s, p)
  \/ \E s \in Sockets, p \in TypingPayloads : TypingStop(s, p)

TypingSpec == TypingInit /\ [][TypingNext]_vars

(* ------------- joining and leaving while a create is in flight --------- *)

\* One step more than Init allows.
RaceInit ==
  /\ Fresh
  /\ budget = MaxSteps + 1
  /\ elapse = {1}

\* Connecting, joining and leaving rooms, sending, and going away.
RaceNext ==
  \/ \E q \in HandshakeQueries : Connection(q)
  \/ \E s \in Sockets, p \in RoomPayloads : RoomJoin(s, p)
  \/ \E s \in Sockets, p \in RoomPayloads : RoomLeave(s, p)
  \/ \E s \in Sockets, p \in MessagePayloads : MessageSend(s, p)
  \/ \E d \in pending : MessageCreated(d)
  \/ \E d \in pending : MessageCreateFailed(d)
  \/ \E s \in Sockets : Disconnect(s)

RaceSpec == RaceInit /\ [][RaceNext]_vars

(* ---------------------- user ids that contain ':' ---------------------- *)

\* The handshake id and the payload ids are strings of the client's
\* choosing: "a", "b", "a:a" and "a:b".
ColonIds == {<<97>>, <<98>>, <<97, Colon, 97>>, <<97, Colon, 98>>}

ColonQueries == {[kind |-> "string", str |-> i] : i \in ColonIds}

ColonRoomPayloads == {JoinPayload(i) : i \in ColonIds}

\* Messages with text "h" to "b".
ColonMessagePayloads ==
  {[object |-> TRUE, fromUserId |-> JsStr(f), toUserId |-> JsStr(<<98>>),
    content |-> JsStr(<<104>>)] : f \in ColonIds}

\* One step more than Init allows.
ColonInit ==
  /\ Fresh
  /\ budget = MaxSteps + 1
  /\ elapse = {1}

\* Connecting, joining a room and sending under such ids.
ColonNext ==
  \/ \E q \in ColonQueries : Connection(q)
  \/ \E s \in Sockets, p \in ColonRoomPayloads : RoomJoin(s, p)
  \/ \E s \in Sockets, p \in ColonMessagePayloads : MessageSend(s, p)
  \/ \E d \in pending : MessageCreated(d)

ColonSpec == ColonInit /\ [][ColonNext]_vars

(* ------------------------------ the browser ---------------------------- *)

\* The connection of the browser: the second one the server accepts, after
\* some other client's.
ClientSocket == 2

\* The partner of the conversation the chat page shows: "b".
PartnerId == <<98>>

\* roomId of the chat page's message:new effect.
ClientRoom == buildRoomId(userId[ClientSocket], PartnerId)

\* handleUserOnline and handleUserOffline of SocketContext.
PresenceAfter(m, e) ==
  IF e.ev = "user:online" THEN m \cup {e.userId}
  ELSE IF e.ev = "user:offline" THEN m \ {e.userId}
  ELSE m

\* handleIncomingMessage of the chat page.
ThreadAfter(t, e) ==
  IF e.ev = "message:new" /\ e.msg.roomId = ClientRoom
  THEN Append(t, e.msg)
  ELSE t

\* The listeners of the browser's socket run for the next event it was
\* sent.
ClientReceive ==
  /\ seen < Len(inbox[ClientSocket])
  /\ seen' = seen + 1
  /\ presenceMap' = PresenceAfter(presenceMap, inbox[ClientSocket][seen + 1])
  /\ thread' = ThreadAfter(thread, inbox[ClientSocket][seen + 1])
  /\ UNCHANGED <<snapshot, loading, sent>>
  /\ UNCHANGED <<serverVars, history, fnVars>>

\* onlineHandler answers the browser's GET /api/users/online.
OnlineQuery ==
  /\ snapshot.state = "requested"
  /\ snapshot' = [state |-> "response", userIds |-> DOMAIN onlineUsers]
  /\ UNCHANGED <<presenceMap, thread, loading, sent, seen>>
  /\ UNCHANGED <<serverVars, history, fnVars>>

\* The fetch of SocketProvider's effect resolves:
\* setOnlineUsers((previous) => ({ ...previous, ...merged })).
SnapshotMerge ==
  /\ snapshot.state = "response"
  /\ presenceMap' = presenceMap \cup snapshot.userIds
  /\ snapshot' = [state |-> "merged"]
  /\ UNCHANGED <<thread, loading, sent, seen>>
  /\ UNCHANGED <<serverVars, history, fnVars>>

\* Connections coming and going, presence announcements, and the browser
\* following them.
ViewNext ==
  \/ \E q \in HandshakeQueries : Connection(q)
  \/ \E s \in Sockets : PresenceJoin(s)
  \/ \E s \in Sockets : PresenceLeave(s)
  \/ \E s \in Sockets : Disconnect(s)
  \/ OnlineQuery
  \/ SnapshotMerge
  \/ ClientReceive

ViewSpec == Init /\ [][ViewNext]_vars

(* ------------------------------ chat page ------------------------------ *)

\* The text typed into the message box: "h".
MessageInput == <<104>>

\* message:send events of the browser's socket the server has received.
Handled == Cardinality({i \in DOMAIN sendLog : sendLog[i].sock = ClientSocket})

\* optimisticMessage of handleSendMessage: its _id is `temp-${Date.now()}`.
Optimistic ==
  [_id |-> [temp |-> Now],
   fromUserId |-> userId[ClientSocket],
   toUserId |-> PartnerId,
   content |-> Trim(MessageInput),
   roomId |-> ClientRoom,
   attachments |-> <<>>,
   createdAt |-> [iso |-> Now]]

\* The payload handleSendMessage emits with message:send.
ClientPayload ==
  [object |-> TRUE,
   fromUserId |-> JsStr(userId[ClientSocket]),
   toUserId |-> JsStr(PartnerId),
   content |-> JsStr(Trim(MessageInput))]

\* The request loadHistory makes, under the signed-in user's cookie.
ClientHistoryRequest ==
  [method |-> "GET", userId |-> JsStr(PartnerId),
   auth |-> JsStr(userId[ClientSocket])]

\* handleSendMessage up to its await: the optimistic entry is appended,
\* message:send is emitted and loadHistory has made its request. The page
\* is used again once the reload has finished, and emits no more events
\* than the server may handle. (The typing:stop it emits as well reaches
\* other sockets only.)
ClientSend ==
  /\ status[ClientSocket] = "Active"
  /\ ~loading
  /\ Steps + (sent - Handled) < budget
  /\ thread' = Append(thread, Optimistic)
  /\ sent' = sent + 1
  /\ loading' = TRUE
  /\ UNCHANGED <<presenceMap, snapshot, seen>>
  /\ UNCHANGED <<serverVars, history, fnVars>>

\* The server receives a message:send the page has emitted.
ClientSendReceived ==
  /\ Handled < sent
  /\ MessageSend(ClientSocket, ClientPayload)

\* historyHandler answers the request of loadHistory.
ClientHistoryServed ==
  /\ loading
  /\ history = NoResponse
  /\ HistoryQuery(ClientHistoryRequest)

\* loadHistory after its await: setMessages(data.data), or setMessages([])
\* when the response is not a success.
HistoryLoaded ==
  /\ loading
  /\ history # NoResponse
  /\ thread' = IF history.status = 200 THEN history.data ELSE <<>>
  /\ loading' = FALSE
  /\ history' = NoResponse
  /\ UNCHANGED <<presenceMap, snapshot, sent, seen>>
  /\ UNCHANGED <<serverVars, fnVars>>

\* The chat page of one user sending, reloading and listening.
ThreadNext ==
  \/ \E q \in HandshakeQueries : Connection(q)
  \/ ClientSend
  \/ ClientSendReceived
  \/ \E d \in pending : MessageCreated(d)
  \/ \E d \in pending : MessageCreateFailed(d)
  \/ ClientHistoryServed
  \/ HistoryLoaded
  \/ ClientReceive

ThreadSpec == Init /\ [][ThreadNext]_vars

(* ======================================================================= *)
(*                               Properties                                *)
(* ======================================================================= *)

\* A client event was dispatched in this step.
EventStep == nEvents' = nEvents + 1

\* The message:new events of an inbox.
NewMessages(s) ==
  {inbox[s][i].msg : i \in {j \in 1..Len(inbox[s]) : inbox[s][j].ev = "message:new"}}

\* The stored documents, as broadcast.
StoredSerialized == {Serialize(store[k]) : k \in 1..Len(store)}

(* C1: persist-before-broadcast. Every message:new a connection has
   received carries a message that is in the store, field for field: the
   broadcast happens only after the create call of that message succeeded. *)
PersistBeforeBroadcast ==
  \A s \in Sockets : NewMessages(s) \subseteq StoredSerialized

\* C1 witness: some connection has received a message:new.
PersistBeforeBroadcastWitness ==
  \E s \in Sockets : NewMessages(s) # {}

\* The payload of event e names a sender other than the identity of socket s.
SenderMismatch(s, e) ==
  /\ e.name = "message:send"
  /\ e.payload.object
  /\ (e.payload.fromUserId.type # "string" \/ e.payload.fromUserId.str # userId[s])

\* Every message in flight, stored or broadcast names as its sender the
\* identity of the connection that sent it.
SenderBound ==
  /\ \A d \in pending : d.fromUserId = userId[sendLog[d._id].sock]
  /\ \A k \in 1..Len(store) : store[k].fromUserId = userId[sendLog[store[k]._id].sock]
  /\ \A s \in Sockets : \A m \in NewMessages(s) :
       m.fromUserId = userId[sendLog[m._id.hex].sock]

(* C2: a message:send whose fromUserId differs from the identity bound to
   the connection persists nothing and broadcasts nothing: the step that
   handles it leaves the pending creates, the store and every inbox as they
   were, and in every reachable state each message in flight, stored or
   broadcast carries the identity of the connection that sent it. *)
SpoofedSendDropped ==
  /\ []SenderBound
  /\ [][(EventStep /\ lastEv'.sock \in Sockets /\ SenderMismatch(lastEv'.sock, lastEv'))
          => UNCHANGED <<pending, store, inbox, rooms>>]_vars

\* C2 witness: an Active connection has just sent an otherwise valid
\* message:send under another user's id, while another connection had
\* joined that very channel.
SpoofedSendDroppedWitness ==
  /\ lastEv.sock \in Sockets
  /\ status[lastEv.sock] = "Active"
  /\ SenderMismatch(lastEv.sock, lastEv)
  /\ isMessagePayload(lastEv.payload)
  /\ Trim(lastEv.payload.content.str) # <<>>
  /\ Subscribers(buildRoomId(lastEv.payload.fromUserId.str,
                             lastEv.payload.toUserId.str)) # {}

\* Socket s is disconnected in this step.
DisconnectStep(s) == status[s] = "Active" /\ status'[s] = "Terminated"

(* C3: the presence entry of a user is deleted only by the disconnect of
   the connection on record. When socket s disconnects while the entry of
   its user is bound to another, still Active connection, the entry stays
   as it is. *)
StaleDisconnectKeepsEntry ==
  [][\A s \in Sockets :
       (/\ DisconnectStep(s)
        /\ userId[s] \in DOMAIN onlineUsers
        /\ onlineUsers[userId[s]].socketId # s
        /\ status[onlineUsers[userId[s]].socketId] = "Active")
       => (/\ userId[s] \in DOMAIN onlineUsers'
           /\ onlineUsers'[userId[s]] = onlineUsers[userId[s]])]_vars

\* The sockets that were accepted with identity u.
ConnectionsOf(u) == {s \in Sockets : status[s] # "Connecting" /\ userId[s] = u}

\* The most recently established connection among the non-empty set S.
Latest(S) == CHOOSE s \in S : \A t \in S : t <= s

(* C4: under connects and reconnects alone, a user whose most recently
   established connection is live has exactly one registry entry, and its
   socketId is the id of that connection. *)
LatestConnectionOnRecord ==
  \A u \in ClientIds \ {<<>>} :
    (ConnectionsOf(u) # {} /\ status[Latest(ConnectionsOf(u))] = "Active")
      => (u \in DOMAIN onlineUsers
          /\ onlineUsers[u].socketId = Latest(ConnectionsOf(u)))

(* C5: when an Active connection is terminated, with or without a
   presence:leave before, the entry of its user is removed, user:offline
   for its user goes to every other connected socket, and it is left in no
   room; a terminated connection is never delivered anything again. *)
DisconnectCleansUp ==
  /\ [][\A s \in Sockets :
          DisconnectStep(s)
            => (/\ userId[s] \notin DOMAIN onlineUsers'
                /\ rooms'[s] = {}
                /\ \A t \in Connected \ {s} :
                     inbox'[t] = Append(inbox[t], OfflineEvent(userId[s])))]_vars
  /\ [][\A s \in Sockets :
          status[s] = "Terminated" => (inbox'[s] = inbox[s] /\ rooms'[s] = {})]_vars

\* C5 witness: a connection joined a room as its only client event (so it
\* never sent presence:leave) and was then terminated; another connection
\* got user:offline for it as the latest event.
DisconnectCleansUpWitness ==
  /\ nEvents = 1
  /\ lastEv.name = "room:join"
  /\ isRoomPayload(lastEv.payload)
  /\ lastEv.sock \in Sockets
  /\ status[lastEv.sock] = "Terminated"
  /\ userId[lastEv.sock] # <<>>
  /\ rooms[lastEv.sock] = {}
  /\ \E t \in Connected :
       /\ inbox[t] # <<>>
       /\ inbox[t][Len(inbox[t])] = OfflineEvent(userId[lastEv.sock])

\* The connections that were refused at handshake.
Refused == {s \in Sockets : status[s] = "Terminated" /\ userId[s] = <<>>}

\* The presence events of an inbox.
PresenceEventsOf(s) ==
  {inbox[s][i] : i \in {j \in 1..Len(inbox[s]) :
                          inbox[s][j].ev \in {"user:online", "user:offline"}}}

\* No trace of a refused connection, nor of an empty identity, in the state.
RefusedLeavesNoTrace ==
  /\ \A s \in Sockets : status[s] = "Active" => userId[s] # <<>>
  /\ <<>> \notin DOMAIN onlineUsers
  /\ \A u \in DOMAIN onlineUsers : onlineUsers[u].socketId \notin Refused
  /\ \A s \in Refused : inbox[s] = <<>> /\ rooms[s] = {}
  /\ \A i \in DOMAIN sendLog : sendLog[i].sock \notin Refused
  /\ \A s \in Sockets : \A e \in PresenceEventsOf(s) : e.userId # <<>>

(* C6: a connection whose handshake carries no user id, or an empty one, is
   terminated at once and never Active: the step that refuses it changes
   neither the registry nor any inbox, and no later event of it changes the
   registry, the rooms, the store or any inbox. *)
RefusedConnectionInert ==
  /\ []RefusedLeavesNoTrace
  /\ [][(nextSocket' = nextSocket + 1 /\ userId'[nextSocket] = <<>>)
          => (/\ status'[nextSocket] = "Terminated"
              /\ UNCHANGED <<onlineUsers, inbox, rooms, pending, store>>)]_vars
  /\ [][(EventStep /\ lastEv'.sock \in Refused)
          => UNCHANGED <<status, onlineUsers, rooms, pending, store, inbox>>]_vars

\* C6 witness: while a user is online on an Active connection, a refused
\* connection has just sent a well-formed message:send.
RefusedConnectionInertWitness ==
  /\ lastEv.sock \in Refused
  /\ lastEv.name = "message:send"
  /\ isMessagePayload(lastEv.payload)
  /\ Trim(lastEv.payload.content.str) # <<>>
  /\ Connected # {}
  /\ DOMAIN onlineUsers # {}

(* C7: buildRoomId is symmetric: the id built from (a, b) is the id built
   from (b, a). *)
RoomIdSymmetric == fnPc = "done" => fnOut = buildRoomId(fnB, fnA)

\* C7 witness: a call whose arguments are distinct and arrive in descending
\* order, so that the sort has to swap them.
RoomIdSymmetricWitness == fnPc = "done" /\ StrLess(fnB, fnA)

\* Non-empty id strings of the pure-function specification.
NonEmptyIds == StringsUpTo(MaxIdLen) \ {<<>>}

(* C8: buildRoomId is injective over unordered pairs of user ids: whenever
   the id built from (c, d) equals the id built from (a, b), the pairs
   {a, b} and {c, d} are the same, ids containing ':' included. *)
RoomIdInjective ==
  (fnPc = "done" /\ fnA # <<>> /\ fnB # <<>>)
    => \A c, d \in NonEmptyIds :
         buildRoomId(c, d) = fnOut => {c, d} = {fnA, fnB}

\* Event e is a well-typed room, message or typing event whose counterpart
\* id is the empty string.
EmptyCounterpart(e) ==
  \/ /\ e.name \in {"room:join", "room:leave"}
     /\ isRoomPayload(e.payload)
     /\ e.payload.otherUserId.str = <<>>
  \/ /\ e.name = "message:send"
     /\ isMessagePayload(e.payload)
     /\ e.payload.toUserId.str = <<>>
  \/ /\ e.name \in {"typing:start", "typing:stop"}
     /\ isTypingPayload(e.payload)
     /\ e.payload.userId.str = <<>>

(* C9: an event whose counterpart id is the empty string derives no channel
   id: the step that handles it changes no room membership, starts no
   create, and changes neither the store nor any inbox. *)
EmptyCounterpartRejected ==
  [][(EventStep /\ EmptyCounterpart(lastEv'))
       => UNCHANGED <<rooms, pending, store, inbox>>]_vars

(* C10: a room:join for b followed, as the next event of the connection, by
   an accepted message:send to b: when the create succeeds while the
   connection is alive and has sent nothing since, the connection itself is
   delivered message:new for that message. *)
OwnMessageDelivered ==
  [][\A d \in pending :
       (/\ d \notin pending'
        /\ Len(store') = Len(store) + 1
        /\ sendLog[d._id].afterJoin
        /\ sendLog[d._id].quiet
        /\ status[sendLog[d._id].sock] = "Active")
       => inbox'[sendLog[d._id].sock]
            = Append(inbox[sendLog[d._id].sock], MessageEvent(Serialize(d)))]_vars

\* C10 witness: a message sent right after the join of its channel has been
\* stored, and its sender has received it as its latest event.
OwnMessageDeliveredWitness ==
  \E k \in 1..Len(store) :
    LET log == sendLog[store[k]._id]
    IN /\ log.afterJoin
       /\ log.quiet
       /\ status[log.sock] = "Active"
       /\ inbox[log.sock][Len(inbox[log.sock])] = MessageEvent(Serialize(store[k]))

\* The connection that sent the message:send of draft d.
SenderOf(d) == sendLog[d._id].sock

\* The create call of draft d resolves in this step.
CreatedStep(d) == d \in pending /\ d \notin pending' /\ Len(store') = Len(store) + 1

\* The create call of draft d is rejected in this step.
FailedStep(d) == d \in pending /\ d \notin pending' /\ sendLog'[d._id].failed

(* C11: the sender is a member of its message's channel when the message
   is broadcast. Whenever the create of an accepted message:send resolves
   while the sending connection is still Active, that connection is
   subscribed to the message's room and is delivered message:new, whatever
   other events of the connection were handled in between. *)
SenderInChannelAtBroadcast ==
  [][\A d \in pending :
       (CreatedStep(d) /\ status[SenderOf(d)] = "Active")
         => (/\ SenderOf(d) \in Subscribers(d.roomId)
             /\ inbox'[SenderOf(d)]
                  = Append(inbox[SenderOf(d)], MessageEvent(Serialize(d))))]_vars

\* The attachments of a message payload, none when the field is absent.
AttachmentsOf(p) ==
  IF "attachments" \in DOMAIN p /\ p.attachments.type = "array"
  THEN p.attachments.arr
  ELSE <<>>

\* Event e is a well-typed message:send that names the identity of socket s
\* as its sender.
OwnSend(s, e) ==
  /\ e.name = "message:send"
  /\ isMessagePayload(e.payload)
  /\ e.payload.fromUserId.str = userId[s]

(* C12: a message:send under the connection's own identity is accepted (a
   create is started for it) if and only if its content is non-blank after
   trimming or it carries at least one attachment. *)
AcceptedIffContentOrAttachment ==
  [][(EventStep /\ lastEv'.sock \in Connected /\ OwnSend(lastEv'.sock, lastEv'))
       => ((pending' # pending)
             <=> (\/ Trim(lastEv'.payload.content.str) # <<>>
                  \/ AttachmentsOf(lastEv'.payload) # <<>>))]_vars

\* The store positions holding the message with _id i.
RecordsOf(i) == {k \in 1..Len(store) : store[k]._id = i}

(* C13: a message:send whose create call failed is never broadcast and has
   no record: no inbox holds a message:new for it and the store holds no
   document with its _id. *)
FailedCreateSilent ==
  \A i \in DOMAIN sendLog :
    sendLog[i].failed
      => (/\ RecordsOf(i) = {}
          /\ \A s \in Sockets : \A m \in NewMessages(s) : m._id.hex # i)

\* C13 witness: a create failed while its sender was Active and subscribed
\* to a room together with another connection.
FailedCreateSilentWitness ==
  \E i \in DOMAIN sendLog :
    /\ sendLog[i].failed
    /\ status[sendLog[i].sock] = "Active"
    /\ \E r \in rooms[sendLog[i].sock] : Subscribers(r) # {sendLog[i].sock}

(* C14: a persistence failure is surfaced to the sender: in the step in
   which the create of a message:send is rejected while the sending
   connection is Active, that connection is delivered an event. *)
FailureSurfaced ==
  [][\A d \in pending :
       (FailedStep(d) /\ status[SenderOf(d)] = "Active")
         => Len(inbox'[SenderOf(d)]) > Len(inbox[SenderOf(d)])]_vars

\* Event e is a typing:start or typing:stop with a well-typed payload.
TypingSignal(e) ==
  e.name \in {"typing:start", "typing:stop"} /\ isTypingPayload(e.payload)

\* The room a typing signal e of socket s is relayed to.
TypingRoom(s, e) == buildRoomId(userId[s], e.payload.userId.str)

\* The user:typing event a typing signal e of socket s is relayed as.
TypingOf(s, e) == TypingEvent(userId[s], e.name = "typing:start")

\* The last event of a non-empty inbox.
LastOf(s) == inbox[s][Len(inbox[s])]

(* C15: a typing:start or typing:stop of connection c for counterpart b is
   delivered as user:typing, carrying the identity of c and true for start,
   false for stop, to every connection other than c that is subscribed to
   the room of (c's identity, b) at that instant, and to nobody else, c
   included; it starts no create and leaves the store as it is. *)
TypingScoped ==
  [][(EventStep /\ lastEv'.sock \in Connected /\ TypingSignal(lastEv'))
       => LET c == lastEv'.sock
              r == TypingRoom(c, lastEv')
          IN /\ \A t \in Sockets :
                  inbox'[t] = IF t # c /\ r \in rooms[t]
                              THEN Append(inbox[t], TypingOf(c, lastEv'))
                              ELSE inbox[t]
             /\ UNCHANGED <<store, pending>>]_vars

\* C15 witness: a connection subscribed to the room has just sent a typing
\* signal for it; another subscriber has it as its latest event, the sender
\* does not, and neither does a third connection that is not subscribed.
TypingScopedWitness ==
  /\ lastEv.sock \in Connected
  /\ TypingSignal(lastEv)
  /\ LET c == lastEv.sock
         r == TypingRoom(c, lastEv)
         e == TypingOf(c, lastEv)
     IN /\ r \in rooms[c]
        /\ LastOf(c) # e
        /\ \E t \in Subscribers(r) \ {c} : LastOf(t) = e
        /\ \E u \in Connected \ Subscribers(r) : LastOf(u) # e

(* C16: typing:start and then typing:stop of connection X for the same
   counterpart: every other connection Y that is subscribed to the room over
   both events has user:typing{X, true} before user:typing{X, false}, and
   the latter is the last event Y was delivered. *)
StartThenStopObserved ==
  [][(/\ EventStep
      /\ lastEv.sock \in Connected
      /\ lastEv.name = "typing:start"
      /\ isTypingPayload(lastEv.payload)
      /\ lastEv'.sock = lastEv.sock
      /\ lastEv'.name = "typing:stop"
      /\ isTypingPayload(lastEv'.payload)
      /\ lastEv'.payload.userId = lastEv.payload.userId)
       => LET x == lastEv.sock
              r == TypingRoom(x, lastEv)
          IN \A y \in Subscribers(r) \ {x} :
               /\ inbox'[y][Len(inbox'[y])] = TypingEvent(userId[x], FALSE)
               /\ \E i \in 1..Len(inbox[y]) :
                    /\ inbox[y][i] = TypingEvent(userId[x], TRUE)
                    /\ \A j \in (i + 1)..Len(inbox[y]) :
                         inbox[y][j] # TypingEvent(userId[x], FALSE)]_vars

\* C16 witness: a connection has just sent typing:stop, and a subscriber's
\* two latest events are user:typing true and then user:typing false of it.
StartThenStopObservedWitness ==
  /\ lastEv.sock \in Connected
  /\ lastEv.name = "typing:stop"
  /\ isTypingPayload(lastEv.payload)
  /\ \E y \in Subscribers(TypingRoom(lastEv.sock, lastEv)) \ {lastEv.sock} :
       /\ Len(inbox[y]) >= 2
       /\ inbox[y][Len(inbox[y]) - 1] = TypingEvent(userId[lastEv.sock], TRUE)
       /\ LastOf(y) = TypingEvent(userId[lastEv.sock], FALSE)

(* C17: every stored message has roomId = buildRoomId(fromUserId,
   toUserId), built by the server and never taken from the payload, and its
   fromUserId is the identity of the connection that sent it. *)
StoredRoomCanonical ==
  \A k \in 1..Len(store) :
    /\ store[k].roomId = buildRoomId(store[k].fromUserId, store[k].toUserId)
    /\ store[k].fromUserId = userId[SenderOf(store[k])]

\* C17 witness: the latest message:send carried a roomId of the client's
\* choosing, was accepted, and its message is stored under another roomId.
StoredRoomCanonicalWitness ==
  /\ lastEv.sock \in Sockets
  /\ OwnSend(lastEv.sock, lastEv)
  /\ "roomId" \in DOMAIN lastEv.payload
  /\ \E k \in 1..Len(store) :
       /\ store[k]._id = Len(sendLog)
       /\ SenderOf(store[k]) = lastEv.sock
       /\ store[k].roomId # lastEv.payload.roomId.str

\* Payload m of a message:new carries the fields of stored document d.
SameFields(m, d) ==
  /\ m._id.hex = d._id
  /\ m.fromUserId = d.fromUserId
  /\ m.toUserId = d.toUserId
  /\ m.content = d.content
  /\ "attachments" \in DOMAIN m
  /\ m.attachments = d.attachments
  /\ m.roomId = d.roomId
  /\ m.createdAt.iso = d.createdAt

(* C18: round trip between store and broadcast. Every message:new payload
   has id, fromUserId, toUserId, content, attachments, roomId and createdAt
   equal to the fields of the stored document of that message. *)
BroadcastRoundTrip ==
  \A s \in Sockets : \A m \in NewMessages(s) :
    \E k \in 1..Len(store) : SameFields(m, store[k])

\* The message:send dispatched in this step passes the guard of the handler.
AcceptedStep ==
  /\ EventStep
  /\ lastEv'.sock \in Connected
  /\ lastEv'.name = "message:send"
  /\ ~SendRejected(lastEv'.sock, lastEv'.payload)

(* C19: each accepted message:send makes one create call and ends with at
   most one record, exactly one once its create has succeeded (none while
   the create is in flight or after it failed); the store only grows by
   appending, so no record is ever updated or deleted. *)
PersistedExactlyOnce ==
  /\ [](\A i \in DOMAIN sendLog :
          /\ Cardinality({d \in pending : d._id = i}) = IF i \in PendingIds THEN 1 ELSE 0
          /\ Cardinality(RecordsOf(i))
               = IF i \in PendingIds \/ sendLog[i].failed THEN 0 ELSE 1)
  /\ [][/\ Len(store') \in {Len(store), Len(store) + 1}
        /\ SubSeq(store', 1, Len(store)) = store]_vars
  /\ [][EventStep
          => (/\ pending \subseteq pending'
              /\ Cardinality(pending' \ pending) = IF AcceptedStep THEN 1 ELSE 0)]_vars

\* C19 witness: one connection sent the same text to the same user twice;
\* both creates succeeded and the store holds one record for each send.
PersistedExactlyOnceWitness ==
  /\ Len(store) = 2
  /\ store[1]._id # store[2]._id
  /\ SenderOf(store[1]) = SenderOf(store[2])
  /\ store[1].toUserId = store[2].toUserId
  /\ store[1].content = store[2].content

\* The store positions of the message:new events of inbox s, in the order
\* of the inbox.
RECURSIVE StorePositions(_)
StorePositions(q) ==
  IF q = <<>> THEN <<>>
  ELSE IF Head(q).ev = "message:new"
       THEN <<CHOOSE k \in 1..Len(store) : store[k]._id = Head(q).msg._id.hex>>
              \o StorePositions(Tail(q))
       ELSE StorePositions(Tail(q))

\* Sequence q of numbers is strictly increasing.
Increasing(q) == \A i, j \in 1..Len(q) : i < j => q[i] < q[j]

(* C20: broadcasts reach the subscribers in the order in which their
   handlers completed. Each step emits at most one event, appended at the
   end of the inbox of every connection it goes to, so two connections never
   hold two broadcasts in different relative orders; and the message:new
   events of every inbox follow the order in which the creates succeeded. *)
BroadcastOrder ==
  /\ [](\A s \in Sockets : Increasing(StorePositions(inbox[s])))
  /\ [][\A s, t \in Sockets :
          /\ inbox'[s] # inbox[s]
               => (Len(inbox'[s]) = Len(inbox[s]) + 1
                   /\ SubSeq(inbox'[s], 1, Len(inbox[s])) = inbox[s])
          /\ (inbox'[s] # inbox[s] /\ inbox'[t] # inbox[t])
               => inbox'[s][Len(inbox'[s])] = inbox'[t][Len(inbox'[t])]]_vars

\* C20 witness: two messages of one room were sent in one order and stored
\* in the other; two subscribers each hold both message:new events as their
\* two latest events, in the order of the store.
BroadcastOrderWitness ==
  /\ Len(store) = 2
  /\ store[1]._id > store[2]._id
  /\ store[1].roomId = store[2].roomId
  /\ \E s, t \in Subscribers(store[1].roomId) :
       /\ s # t
       /\ \A u \in {s, t} :
            /\ Len(inbox[u]) >= 2
            /\ inbox[u][Len(inbox[u]) - 1] = MessageEvent(Serialize(store[1]))
            /\ LastOf(u) = MessageEvent(Serialize(store[2]))

(* C21: the history of a channel lists its messages in the order in which
   they were sent: in every 200 response the messages appear in the order in
   which their message:send events were handled, several creates in flight
   at the same time included. *)
HistoryInSendOrder ==
  history.status = 200
    => \A i, j \in 1..Len(history.data) :
         i < j => history.data[i]._id.hex < history.data[j]._id.hex

\* Socket s is accepted in this step.
AcceptStep(s) == status[s] = "Connecting" /\ status'[s] = "Active"

\* Socket s is delivered exactly the events of q in this step.
Receives(s, q) == inbox'[s] = inbox[s] \o q

(* C22: membership belongs to a connection, not to a user. A connection
   starts with no room, whatever rooms earlier connections of its user had;
   rooms are added to it only by its own room:join or message:send; and a
   message:new or user:typing reaches a connection only for a room it is in
   itself. *)
MembershipPerConnection ==
  /\ [][\A s \in Sockets : AcceptStep(s) => rooms'[s] = {}]_vars
  /\ [][\A s \in Sockets :
          ~(rooms'[s] \subseteq rooms[s])
            => (/\ EventStep
                /\ lastEv'.sock = s
                /\ lastEv'.name \in {"room:join", "message:send"})]_vars
  /\ [][\A s \in Sockets : \A d \in pending :
          Receives(s, <<MessageEvent(Serialize(d))>>) => d.roomId \in rooms[s]]_vars
  /\ [][\A s \in Sockets :
          (EventStep /\ lastEv'.sock \in Connected /\ TypingSignal(lastEv')
             /\ inbox'[s] # inbox[s])
            => TypingRoom(lastEv'.sock, lastEv') \in rooms[s]]_vars

\* C22 witness: a connection sent a message and was disconnected while the
\* create was in flight, so that it never received it; a later connection
\* of the same user is Active, the message is stored, and the later
\* connection is in no room and received no message:new.
MembershipPerConnectionWitness ==
  \E k \in 1..Len(store) : \E c \in Connected :
    /\ status[SenderOf(store[k])] = "Terminated"
    /\ c > SenderOf(store[k])
    /\ userId[c] = userId[SenderOf(store[k])]
    /\ rooms[c] = {}
    /\ NewMessages(c) = {}
    /\ NewMessages(SenderOf(store[k])) = {}

\* Event e is a room event with a well-typed payload.
RoomSignal(e) == e.name \in {"room:join", "room:leave"} /\ isRoomPayload(e.payload)

\* The room a room event e of socket s is about.
RoomOf(s, e) == buildRoomId(userId[s], e.payload.otherUserId.str)

\* The positions of inbox s that hold message:new for message _id i.
CopiesOf(s, i) ==
  {j \in 1..Len(inbox[s]) : inbox[s][j].ev = "message:new" /\ inbox[s][j].msg._id.hex = i}

(* C23: room:join is idempotent and room:leave is a no-op for a non-member.
   A room:join for a room the connection is in, and a room:leave for a room
   it is not in, change no membership; and no connection is ever delivered
   the message:new of one message twice. *)
JoinLeaveIdempotent ==
  /\ [][(/\ EventStep
         /\ lastEv'.sock \in Connected
         /\ RoomSignal(lastEv')
         /\ (lastEv'.name = "room:join")
              <=> (RoomOf(lastEv'.sock, lastEv') \in rooms[lastEv'.sock]))
          => UNCHANGED rooms]_vars
  /\ [](\A s \in Sockets : \A i \in DOMAIN sendLog : Cardinality(CopiesOf(s, i)) <= 1)

\* C23 witness: both users had joined their channel; one of them has just
\* sent room:join for it once more, and is in that room and no other.
JoinLeaveIdempotentWitness ==
  /\ nEvents = 3
  /\ lastEv.sock \in Connected
  /\ lastEv.name = "room:join"
  /\ isRoomPayload(lastEv.payload)
  /\ lastEv.payload.otherUserId.str \in lastJoin[lastEv.sock]
  /\ rooms[lastEv.sock] = {buildRoomId(<<97>>, <<98>>)}
  /\ Cardinality(Subscribers(buildRoomId(<<97>>, <<98>>))) = 2

\* Event e of socket s fails the type guard of its listener, or is a
\* message:send that names another sender.
Malformed(s, e) ==
  \/ e.name \in {"room:join", "room:leave"} /\ ~isRoomPayload(e.payload)
  \/ e.name = "message:send" /\ ~isMessagePayload(e.payload)
  \/ SenderMismatch(s, e)
  \/ e.name \in {"typing:start", "typing:stop"} /\ ~isTypingPayload(e.payload)

(* C24: a malformed or spoofed event is dropped in silence. The step that
   handles it leaves the registry, every membership, the store and the
   creates in flight as they were, delivers nothing to anybody, and leaves
   the connection Active. *)
MalformedDropped ==
  [][(EventStep /\ lastEv'.sock \in Connected /\ Malformed(lastEv'.sock, lastEv'))
       => UNCHANGED <<status, onlineUsers, rooms, pending, store, inbox>>]_vars

\* C24 witness: a connection that had joined a room has just sent an event
\* that fails its type guard; it is Active, still in the room and on record.
MalformedDroppedWitness ==
  /\ lastEv.sock \in Connected
  /\ Malformed(lastEv.sock, lastEv)
  /\ ~lastEv.payload.object \/ lastEv.name # "message:send"
  /\ rooms[lastEv.sock] # {}
  /\ userId[lastEv.sock] \in DOMAIN onlineUsers

\* A presence:join of an Active connection is handled in this step.
AnnounceStep ==
  EventStep /\ lastEv'.sock \in Connected /\ lastEv'.name = "presence:join"

\* The registry holds user u, bound to socket s.
OnRecord(u, s) == u \in DOMAIN onlineUsers /\ onlineUsers[u].socketId = s

(* C25, as the code has it: on presence:join of an Active connection c of
   user u the registry entry of u is set to c, and user:online{u} goes to
   every connected socket, c itself included, and to no other. *)
AnnounceToAll ==
  [][AnnounceStep
       => LET c == lastEv'.sock
          IN /\ userId[c] \in DOMAIN onlineUsers'
             /\ onlineUsers'[userId[c]].socketId = c
             /\ \A t \in Sockets :
                  inbox'[t] = IF t \in Connected
                              THEN Append(inbox[t], OnlineEvent(userId[c]))
                              ELSE inbox[t]]_vars

\* C25 witness: with two connections Active, the first has just sent
\* presence:join; each of them has user:online of its user as the latest
\* event, and the announcing one has it twice, from its accept and from its
\* announce.
AnnounceToAllWitness ==
  /\ lastEv.sock \in Connected
  /\ lastEv.name = "presence:join"
  /\ OnRecord(userId[lastEv.sock], lastEv.sock)
  /\ \E t \in Connected \ {lastEv.sock} :
       /\ userId[t] # userId[lastEv.sock]
       /\ LastOf(t) = OnlineEvent(userId[lastEv.sock])
  /\ LastOf(lastEv.sock) = OnlineEvent(userId[lastEv.sock])
  /\ inbox[lastEv.sock][1] = OnlineEvent(userId[lastEv.sock])
  /\ Len(inbox[lastEv.sock]) > 1

(* C25, as stated: on presence:join of an Active connection c of user u,
   user:online{u} goes to the connected sockets other than c, and c itself
   is delivered nothing. *)
AnnounceToOthers ==
  [][AnnounceStep
       => LET c == lastEv'.sock
          IN \A t \in Sockets :
               inbox'[t] = IF t \in Connected \ {c}
                           THEN Append(inbox[t], OnlineEvent(userId[c]))
                           ELSE inbox[t]]_vars

(* C26: entering Active announces presence before any client event of the
   connection is handled. The step that accepts a connection handles no
   client event, binds the registry entry of its user to it and sends
   user:online of that user to every connected socket and to the new one;
   so the first event an accepted connection is ever delivered is its own
   user:online. *)
VisibleAtActiveEntry ==
  /\ [][\A s \in Sockets :
          AcceptStep(s)
            => (/\ nEvents' = nEvents
                /\ userId'[s] # <<>>
                /\ userId'[s] \in DOMAIN onlineUsers'
                /\ onlineUsers'[userId'[s]] = [socketId |-> s, lastSeenAt |-> Now]
                /\ \A t \in Connected \cup {s} :
                     inbox'[t] = Append(inbox[t], OnlineEvent(userId'[s])))]_vars
  /\ [](\A s \in Sockets :
          status[s] = "Active"
            => (inbox[s] # <<>> /\ inbox[s][1] = OnlineEvent(userId[s])))

\* C26 witness: a second connection, of another user, has been accepted and
\* has sent nothing yet; it is on record, and the first connection has the
\* user:online of the newcomer as its latest event.
VisibleAtActiveEntryWitness ==
  /\ nEvents = 0
  /\ Connected = {1, 2}
  /\ userId[1] # userId[2]
  /\ OnRecord(userId[2], 2)
  /\ inbox[2] = <<OnlineEvent(userId[2])>>
  /\ LastOf(1) = OnlineEvent(userId[2])

(* C27: Terminated is terminal. A connection whose disconnect has been
   processed changes nothing any more: a client event of it leaves the
   registry, the memberships, the store and every inbox as they were, and so
   does the completion of a create that it left in flight. *)
TerminatedIsTerminal ==
  /\ [][(EventStep /\ lastEv'.sock \in Sockets /\ status[lastEv'.sock] = "Terminated")
          => UNCHANGED <<status, onlineUsers, rooms, pending, store, inbox>>]_vars
  /\ [][\A d \in pending :
          (d \notin pending' /\ status[SenderOf(d)] = "Terminated")
            => UNCHANGED <<onlineUsers, rooms, store, inbox>>]_vars

\* A create of socket s was rejected, or the latest client event was an
\* event of s that its listener dropped.
Troubled(s) ==
  \/ \E i \in DOMAIN sendLog : sendLog[i].sock = s /\ sendLog[i].failed
  \/ /\ lastEv.sock = s
     /\ \/ Malformed(s, lastEv)
        \/ lastEv.name = "message:send" /\ SendRejected(s, lastEv.payload)

(* C28: disconnect cleanup does not depend on earlier errors. When a
   connection on which an event was dropped or a create failed is
   disconnected, the registry entry of its user is removed, user:offline of
   its user goes to every other connected socket, and it is left in no
   room. *)
CleanupAfterErrors ==
  [][\A s \in Sockets :
       (DisconnectStep(s) /\ Troubled(s))
         => (/\ userId[s] \notin DOMAIN onlineUsers'
             /\ rooms'[s] = {}
             /\ \A t \in Connected \ {s} :
                  Receives(t, <<OfflineEvent(userId[s])>>))]_vars

\* C28 witness: a connection whose create was rejected, and which the send
\* had put into a room, has been disconnected: it is in no room, its user is
\* off the registry, and another connection has its user:offline as the
\* latest event.
CleanupAfterErrorsWitness ==
  \E i \in DOMAIN sendLog :
    LET s == sendLog[i].sock
    IN /\ sendLog[i].failed
       /\ status[s] = "Terminated"
       /\ rooms[s] = {}
       /\ userId[s] \notin DOMAIN onlineUsers
       /\ \E t \in Connected : LastOf(t) = OfflineEvent(userId[s])

\* setUserOffline is called for the user of socket s in this step: by
\* the presence:leave listener or by the disconnect listener.
OfflineCall(s) ==
  \/ DisconnectStep(s)
  \/ /\ EventStep
     /\ lastEv'.sock = s
     /\ status[s] = "Active"
     /\ lastEv'.name = "presence:leave"

(* C29: setUserOffline removes the entry of its user whether or not there
   is one. After every call the registry has no entry for the user and the
   entries of all others are as before; a call for a user without entry,
   such as the disconnect after a presence:leave, leaves the registry
   unchanged. *)
OfflineIdempotent ==
  [][\A s \in Sockets :
       OfflineCall(s)
         => (/\ DOMAIN onlineUsers' = DOMAIN onlineUsers \ {userId[s]}
             /\ \A v \in DOMAIN onlineUsers' : onlineUsers'[v] = onlineUsers[v]
             /\ userId[s] \notin DOMAIN onlineUsers => onlineUsers' = onlineUsers)]_vars

\* C29 witness: a connection sent presence:leave as its latest event and was
\* then disconnected, which called setUserOffline for an absent user, while
\* another user stayed on record.
OfflineIdempotentWitness ==
  /\ lastEv.sock \in Sockets
  /\ lastEv.name = "presence:leave"
  /\ status[lastEv.sock] = "Terminated"
  /\ userId[lastEv.sock] # <<>>
  /\ userId[lastEv.sock] \notin DOMAIN onlineUsers
  /\ DOMAIN onlineUsers # {}

\* The sockets that act in this step: the one accepted or refused, the one
\* disconnected, or the one whose client event is handled; none when a
\* create settles or an HTTP request is answered.
Acting ==
  {s \in Sockets :
     \/ status[s] # status'[s]
     \/ EventStep /\ lastEv'.sock = s}

\* The registry entry of user v is the same before and after this step.
SameEntry(v) ==
  /\ (v \in DOMAIN onlineUsers) <=> (v \in DOMAIN onlineUsers')
  /\ v \in DOMAIN onlineUsers => onlineUsers'[v] = onlineUsers[v]

(* C30: operations on different keys do not interfere. A step changes the
   registry entry of no user but the one of the acting connection, and the
   memberships of no connection but the acting one; a well-typed room:join
   adds exactly its room to the acting connection, a well-typed room:leave
   removes exactly its room, a disconnect removes all. So a connection whose
   latest event was a join is in that room while it is connected, one whose
   latest event was a leave is not, and a terminated one is in none. *)
NoInterference ==
  /\ [][\A v \in ClientIds :
          (\A s \in Acting : userId'[s] # v) => SameEntry(v)]_vars
  /\ [][\A t \in Sockets : t \notin Acting => rooms'[t] = rooms[t]]_vars
  /\ [][\A s \in Sockets :
          /\ DisconnectStep(s) => rooms'[s] = {}
          /\ (EventStep /\ lastEv'.sock = s /\ status[s] = "Active" /\ RoomSignal(lastEv'))
               => rooms'[s] = IF lastEv'.name = "room:join"
                              THEN rooms[s] \cup {RoomOf(s, lastEv')}
                              ELSE rooms[s] \ {RoomOf(s, lastEv')}]_vars
  /\ [](\A s \in Sockets :
          /\ status[s] = "Active"
               => \A u \in lastJoin[s] : buildRoomId(userId[s], u) \in rooms[s]
          /\ (status[s] = "Active" /\ lastEv.sock = s /\ lastEv.name = "room:leave"
                /\ isRoomPayload(lastEv.payload))
               => RoomOf(s, lastEv) \notin rooms[s]
          /\ status[s] # "Active" => rooms[s] = {})

\* C30 witness: of two connections that had joined one channel, one has
\* just left it; the channel's subscribers are exactly the other one, whose
\* latest event is still its join, and both users are on record.
NoInterferenceWitness ==
  /\ lastEv.sock \in Connected
  /\ lastEv.name = "room:leave"
  /\ isRoomPayload(lastEv.payload)
  /\ \E s \in Connected \ {lastEv.sock} :
       /\ lastJoin[s] # {}
       /\ Subscribers(RoomOf(lastEv.sock, lastEv)) = {s}
       /\ OnRecord(userId[s], s)
  /\ OnRecord(userId[lastEv.sock], lastEv.sock)

\* Event e is a typing:start or typing:stop.
TypingNamed(e) == e.name \in {"typing:start", "typing:stop"}

\* The payload of typing event e of socket s passes the validation the
\* contract asks for: both ids non-empty and isTyping a boolean.
TypingWellFormed(s, e) ==
  /\ isTypingPayload(e.payload)
  /\ userId[s] # <<>>
  /\ e.payload.userId.str # <<>>

(* C31: a typing:start or typing:stop event is dropped, nothing being
   delivered to any connection, unless the sender id and the counterpart id
   of its payload are both non-empty and isTyping is a boolean. *)
TypingValidated ==
  [][(/\ EventStep
      /\ lastEv'.sock \in Connected
      /\ TypingNamed(lastEv')
      /\ ~TypingWellFormed(lastEv'.sock, lastEv'))
       => UNCHANGED inbox]_vars

(* C39: the isTyping value relayed is fixed by the event name and the userId
   relayed is the bound identity of the connection: whatever a well-typed
   typing:start or typing:stop payload holds, every connection that is
   delivered something in the step is delivered exactly one user:typing event
   carrying the sender's identity and true for start, false for stop. *)
TypingFixedByName ==
  [][(EventStep /\ lastEv'.sock \in Connected /\ TypingSignal(lastEv'))
       => \A t \in Sockets :
            inbox'[t] # inbox[t]
              => /\ Len(inbox'[t]) = Len(inbox[t]) + 1
                 /\ SubSeq(inbox'[t], 1, Len(inbox[t])) = inbox[t]
                 /\ inbox'[t][Len(inbox'[t])].ev = "user:typing"
                 /\ inbox'[t][Len(inbox'[t])].userId = userId[lastEv'.sock]
                 /\ inbox'[t][Len(inbox'[t])].isTyping
                      = (lastEv'.name = "typing:start")]_vars

\* C39 witness: a typing:start whose payload says isTyping: false and names
\* another user has just been relayed, and a subscriber has it as
\* user:typing of the sender with isTyping true.
TypingFixedByNameWitness ==
  /\ lastEv.sock \in Connected
  /\ lastEv.name = "typing:start"
  /\ isTypingPayload(lastEv.payload)
  /\ lastEv.payload.isTyping.bool = FALSE
  /\ lastEv.payload.userId.str # userId[lastEv.sock]
  /\ \E t \in Sockets \ {lastEv.sock} :
       /\ inbox[t] # <<>>
       /\ LastOf(t) = TypingEvent(userId[lastEv.sock], TRUE)

\* The sockets that were in the room of the message with _id i when its
\* message:send was received, before the sender's own join.
EarlySubscribers(i, r) == {t \in Sockets : r \in sendLog[i].roomsAt[t]}

\* Socket t holds message:new for the stored message m.
Holds(t, m) == \E j \in 1..Len(inbox[t]) : inbox[t][j] = MessageEvent(Serialize(m))

(* C32: message:new reaches exactly the connections subscribed to the
   message's room at the instant the create resolves: in that step every
   connection in the room is delivered the message as one more event and
   every other inbox stays as it is, whoever was subscribed when
   message:send was received. *)
BroadcastAtCompletion ==
  [][\A d \in pending :
       CreatedStep(d)
         => \A t \in Sockets :
              inbox'[t] = IF d.roomId \in rooms[t]
                          THEN Append(inbox[t], MessageEvent(Serialize(d)))
                          ELSE inbox[t]]_vars

\* C32 witness: a stored message is held by a connection other than its
\* sender that was not in the room when message:send was received.
BroadcastAtCompletionWitness ==
  \E k \in 1..Len(store) :
    \E t \in Sockets \ {SenderOf(store[k])} :
      /\ t \notin EarlySubscribers(store[k]._id, store[k].roomId)
      /\ Holds(t, store[k])

\* A stored message is not held by a connection that was in the room when
\* message:send was received.
MissedByLeaver ==
  \E k \in 1..Len(store) :
    \E t \in EarlySubscribers(store[k]._id, store[k].roomId) :
      ~Holds(t, store[k])

\* The user of socket t has no entry in the presence registry.
Absent(t) == userId[t] \notin DOMAIN onlineUsers

(* C33: the step that handles presence:leave of an Active connection
   removes its user's registry entry and no other, delivers
   user:offline{userId} to every Active connection, and leaves every
   connection's status and room memberships as they are; and a connection
   whose user is absent from the registry is still delivered message:new
   and user:typing for the rooms it is in. *)
PresenceLeaveKeepsChannels ==
  [][/\ (EventStep /\ lastEv'.sock \in Connected /\ lastEv'.name = "presence:leave")
          => LET c == lastEv'.sock
             IN /\ DOMAIN onlineUsers' = DOMAIN onlineUsers \ {userId[c]}
                /\ \A u \in DOMAIN onlineUsers' : onlineUsers'[u] = onlineUsers[u]
                /\ \A t \in Sockets :
                     inbox'[t] = IF t \in Connected
                                 THEN Append(inbox[t], OfflineEvent(userId[c]))
                                 ELSE inbox[t]
                /\ status' = status
                /\ rooms' = rooms
     /\ \A d \in pending :
          CreatedStep(d)
            => \A t \in Subscribers(d.roomId) :
                 Absent(t) => inbox'[t] = Append(inbox[t], MessageEvent(Serialize(d)))
     /\ (EventStep /\ lastEv'.sock \in Connected /\ TypingSignal(lastEv'))
          => \A t \in Subscribers(TypingRoom(lastEv'.sock, lastEv')) \ {lastEv'.sock} :
               Absent(t) => inbox'[t] = Append(inbox[t], TypingOf(lastEv'.sock, lastEv'))
    ]_vars

\* C33 witness: an Active connection in a room, its user absent from the
\* registry, was delivered user:offline for its own user and, after that,
\* message:new.
PresenceLeaveKeepsChannelsWitness ==
  \E t \in Connected :
    /\ Absent(t)
    /\ rooms[t] # {}
    /\ \E j, k \in 1..Len(inbox[t]) :
         /\ j < k
         /\ inbox[t][j] = OfflineEvent(userId[t])
         /\ inbox[t][k].ev = "message:new"
         /\ inbox[t][k].msg.roomId \in rooms[t]

(* C35: a failed send leaves room membership unchanged. The step that drops
   a message:send by validation changes no membership; and when the create
   of a message:send is rejected while its sender is Active and has sent no
   other event since, the sender's rooms are those it was in before the
   message:send was received. *)
FailedSendKeepsMembership ==
  [][/\ (/\ EventStep
          /\ lastEv'.sock \in Connected
          /\ lastEv'.name = "message:send"
          /\ pending' = pending)
          => rooms' = rooms
     /\ \A d \in pending :
          (/\ FailedStep(d)
           /\ sendLog[d._id].quiet
           /\ status[SenderOf(d)] = "Active")
            => rooms'[SenderOf(d)] = sendLog[d._id].roomsAt[SenderOf(d)]
    ]_vars

\* The set of user ids obtained by replaying a sequence of presence
\* broadcasts: user:online adds its userId, user:offline removes it.
RECURSIVE Replay(_)
Replay(log) ==
  IF log = <<>> THEN {}
  ELSE LET e == log[Len(log)]
           before == Replay(SubSeq(log, 1, Len(log) - 1))
       IN IF e.ev = "user:online" THEN before \cup {e.userId}
          ELSE before \ {e.userId}

\* A step in which the registry is written is a step that makes exactly
\* one presence broadcast, for the user written: user:online when the
\* user's entry is set, user:offline when it is deleted.
PairedWithBroadcast ==
  \/ onlineUsers' = onlineUsers /\ emitted' = emitted
  \/ /\ Len(emitted') = Len(emitted) + 1
     /\ SubSeq(emitted', 1, Len(emitted)) = emitted
     /\ LET e == emitted'[Len(emitted')]
        IN /\ \A u \in (DOMAIN onlineUsers \cup DOMAIN onlineUsers') \ {e.userId} :
                /\ u \in DOMAIN onlineUsers
                /\ u \in DOMAIN onlineUsers'
                /\ onlineUsers'[u] = onlineUsers[u]
           /\ IF e.ev = "user:online"
              THEN e.userId \in DOMAIN onlineUsers'
              ELSE e.ev = "user:offline" /\ e.userId \notin DOMAIN onlineUsers'

(* C36: the presence broadcasts reconstruct the registry: in every state the
   user ids on record are those obtained by replaying, in order, all
   user:online and user:offline broadcasts made so far, and every step that
   writes the registry makes the matching broadcast. *)
BroadcastsReconstructRegistry ==
  /\ [](DOMAIN onlineUsers = Replay(emitted))
  /\ [][PairedWithBroadcast]_vars

\* C36 witness: broadcasts of both kinds were made, one user is on record
\* and another user, whose connection is still Active, is not.
BroadcastsReconstructRegistryWitness ==
  /\ \E i, j \in 1..Len(emitted) :
       emitted[i].ev = "user:online" /\ emitted[j].ev = "user:offline"
  /\ DOMAIN onlineUsers # {}
  /\ \E t \in Connected : Absent(t)
  /\ DOMAIN onlineUsers = Replay(emitted)

\* Room r is the channel of two users, neither of whom is u.
ChannelOfOthers(r, u) ==
  \E x, y \in NonEmptyIds \ {u} : buildRoomId(x, y) = r

(* C34: message confidentiality. Every message:new delivered to a
   connection carries a message from or to the connection's bound identity,
   and no connection is subscribed to a room that is the channel of two
   other users, whatever strings the handshake and the room:join and
   message:send payloads hold. *)
MessageConfidentiality ==
  \A t \in Sockets :
    /\ \A m \in NewMessages(t) :
         m.fromUserId = userId[t] \/ m.toUserId = userId[t]
    /\ \A r \in rooms[t] : ~ChannelOfOthers(r, userId[t])

\* A connection holds a message that is neither from nor to its identity.
Eavesdropped ==
  \E t \in Sockets : \E m \in NewMessages(t) :
    m.fromUserId # userId[t] /\ m.toUserId # userId[t]

\* The browser is connected, has merged the snapshot and has handled every
\* event its socket was sent.
CaughtUp ==
  /\ status[ClientSocket] = "Active"
  /\ snapshot.state = "merged"
  /\ seen = Len(inbox[ClientSocket])

(* C37: the browser's presence view converges to the server's: once the
   /api/users/online response and every user:online / user:offline event
   sent so far have been processed, in whatever order the response and the
   events arrived, the keys of the browser's onlineUsers are the user ids of
   the server's registry; a user who went offline is not left marked
   online. *)
PresenceViewConverges == CaughtUp => presenceMap = DOMAIN onlineUsers

\* The browser has caught up and still shows a user as online who is not
\* in the registry.
LeftMarkedOnline == CaughtUp /\ presenceMap \ DOMAIN onlineUsers # {}

\* The browser has caught up and does not show a user who is in the
\* registry.
NotMarkedOnline == CaughtUp /\ DOMAIN onlineUsers \ presenceMap # {}

\* Entry m of the thread is an optimistic one.
IsTemp(m) == "temp" \in DOMAIN m._id

\* Nothing of the page's sends is under way: every emitted message:send
\* was received and settled, the reload has finished and every event sent
\* to the socket was handled.
ThreadSettled ==
  /\ ~loading
  /\ Handled = sent
  /\ \A d \in pending : SenderOf(d) # ClientSocket
  /\ seen = Len(inbox[ClientSocket])

(* C38: the chat thread holds each persisted message at most once: under
   every interleaving of the optimistic append, the history reload and the
   arrival of the sender's own message:new, no two entries of the list have
   the same id, and once the send has settled no optimistic entry is left
   next to its persisted copy. *)
ThreadHoldsEachOnce ==
  /\ \A i, j \in 1..Len(thread) : i < j => thread[i]._id # thread[j]._id
  /\ ThreadSettled
       => \A i, j \in 1..Len(thread) :
            (IsTemp(thread[i]) /\ ~IsTemp(thread[j]))
              => ~(/\ thread[j].fromUserId = thread[i].fromUserId
                   /\ thread[j].toUserId = thread[i].toUserId
                   /\ thread[j].content = thread[i].content)

\* The page's send has settled and the thread does not hold the message
\* that was persisted for it.
PersistedNotShown ==
  /\ ThreadSettled
  /\ \E k \in 1..Len(store) :
       /\ SenderOf(store[k]) = ClientSocket
       /\ \A i \in 1..Len(thread) : thread[i]._id # [hex |-> store[k]._id]

====
